---------------------------- MODULE Spec2Model ----------------------------
(***************************************************************************)
(* A model of the diagnostic tooling of the acoustic data link:            *)
(*   - the CRC-8 codec and its test harness        (src/test_crc.py)       *)
(*   - the NCC peak selector and the frame aligner                         *)
(*                                      (src/diagnose_sync_offset.py)      *)
(*   - the bit-error diagnostics and the tools that read bit files         *)
(*                         (src/test_synchronization.py, src/test_crc.py)  *)
(*   - the normalized cross-correlation of the correlation detector        *)
(*   - the test-vector generator             (src/input_text_generator.py) *)
(*   - the loopback recorder        (src/debug_pic/audio_debug/record.py)  *)
(* Scores are integers in hundredths (0.35 is 35); times are kept as       *)
(* sample indices at 44100 samples per second.                             *)
(***************************************************************************)
EXTENDS Integers, Sequences, FiniteSets, TLC

VARIABLES
    \* ---- calculate_crc8 and its callers (test_crc.py)
    crc_pc,            \* position in calculate_crc8 / the harness
    crc_arg,           \* the data_bits argument as passed: [kind, val]
    polynomial,        \* the polynomial argument
    data_bits,         \* the list of booleans the loop runs over
    bit_pos,           \* number of input bits consumed by the loop
    crc,               \* the register
    err_i,             \* test_error_detection: loop index i
    corrupted_crc,     \* test_error_detection: CRC of the last corrupted copy
    errors_detected,   \* test_error_detection: counter
    crc_bits,          \* test_file_crc: crc_to_bits(crc)
    full_frame,        \* test_file_crc: data + crc_bits
    payload_received,  \* test_file_crc: full_frame[:-8]
    crc_received,      \* test_file_crc: int(full_frame[-8:], 2)
    crc_calculated,    \* test_file_crc: calculate_crc8(payload_received)
    \* ---- analyze_ncc_file (diagnose_sync_offset.py)
    ncc_pc,            \* position in analyze_ncc_file
    sample_indices,    \* the sample index of every row of the trace
    ncc_values,        \* the score of every row, in hundredths
    scan_i,            \* the detection loop's index i (0-based)
    peaks,             \* the list "peaks": candidates, then the merged peaks
    current_peak,      \* the merge pass: the cluster's representative
    merge_i,           \* the merge pass: position in peaks[1:] (1-based)
    filtered_peaks,    \* the merge pass: peaks emitted so far
    clusters,          \* history: the candidates each cluster absorbed, in order
    max_ncc,           \* report: np.max(ncc_values) when no peak was found
    recommended,       \* report: max_ncc * 0.7, in thousandths
    quality,           \* report: the peak quality branch taken
    offset_i,          \* offset analysis: loop index over peaks[:3]
    alignments,        \* offset analysis: what was reported for each peak
    plot_data_start,   \* plot: sample of the "Expected Data Start" line
    recommendation,    \* the recommendations branch taken
    \* ---- analyze_bit_errors and the tools that read INPUT.txt / OUTPUT.txt
    \*      (test_synchronization.py; test_crc.py test_file_crc,
    \*      test_receiver_output)
    diag_pc,           \* position in the routine
    entry,             \* the routine that was called
    arg_input,         \* input_bits as passed / INPUT.txt as read and stripped
    arg_output,        \* output_bits as passed / OUTPUT.txt as read and stripped
    input_bits,        \* the local input_bits (truncated on a length mismatch)
    output_bits,       \* the local output_bits
    format_error,      \* the file reported as holding non-binary characters
    length_flagged,    \* the length mismatch was printed
    cmp_i,             \* the comparison loop's index i (0-based)
    errors,            \* the list "errors"
    total_bits,        \* analyze_bit_errors: total_bits
    error_count,       \* analyze_bit_errors: error_count
    ber,               \* the bit error rate, as the fraction [num, den]
    early_threshold,   \* int(total_bits * 0.2)
    late_threshold,    \* int(total_bits * 0.8)
    early_errors,      \* errors before early_threshold
    middle_errors,     \* errors in between
    late_errors,       \* errors from late_threshold on
    findings,          \* the findings printed so far
    burst_i,           \* the burst scan's index i
    current_burst,     \* the burst scan: the run being collected
    bursts,            \* the burst scan: the runs of 3 or more errors
    rating,            \* the recommendations branch taken on ber
    file_crc,          \* test_file_crc: calculate_crc8(data), -1 before
    \* ---- the correlation detector (normalized mode)
    corr_pc,           \* position in the correlation pass
    template,          \* the reference waveform
    samples,           \* the sample buffer
    corr_offset,       \* the next window offset (0-based)
    corr_scores,       \* per offset: the dot product and the squared norms
    \* ---- generate_bits (input_text_generator.py)
    gen_pc,            \* position in generate_bits
    gen_length,        \* the argument length
    gen_mode,          \* the argument mode
    gen_n,             \* the argument n
    gen_chunks,        \* random mode: the list "bits" of formatted chunks
    gen_out,           \* the string returned
    \* ---- AudioLoopbackTester (debug_pic/audio_debug/record.py)
    loop_pc,           \* "idle", or "running" once the tester is constructed
    capacity,          \* recordedAudio.getNumSamples()
    samplesRecorded,   \* the member samplesRecorded
    samplesPlayed,     \* the member samplesPlayed
    recordedAudio,     \* per sample: the callback that wrote it, 0 if cleared
    callbacks,         \* history: per callback its block and what was done
    overrun,           \* history: a copy went past the end of the buffer
    dropped,           \* history: a block of input was not copied
    lastOutput         \* what the last callback did with the output block

crcVars == << crc_pc, crc_arg, polynomial, data_bits, bit_pos, crc, err_i,
              corrupted_crc, errors_detected, crc_bits, full_frame,
              payload_received, crc_received, crc_calculated >>

nccVars == << ncc_pc, sample_indices, ncc_values, scan_i, peaks, current_peak,
              merge_i, filtered_peaks, clusters, max_ncc, recommended, quality,
              offset_i, alignments, plot_data_start, recommendation >>

diagVars == << diag_pc, entry, arg_input, arg_output, input_bits, output_bits,
               format_error, length_flagged, cmp_i, errors, total_bits,
               error_count, ber, early_threshold, late_threshold, early_errors,
               middle_errors, late_errors, findings, burst_i, current_burst,
               bursts, rating, file_crc >>

corrVars == << corr_pc, template, samples, corr_offset, corr_scores >>

genVars == << gen_pc, gen_length, gen_mode, gen_n, gen_chunks, gen_out >>

loopVars == << loop_pc, capacity, samplesRecorded, samplesPlayed, recordedAudio,
               callbacks, overrun, dropped, lastOutput >>

\* what a step of one component leaves alone
crcRest == << nccVars, diagVars, corrVars, genVars, loopVars >>
nccRest == << crcVars, diagVars, corrVars, genVars, loopVars >>
diagRest == << crcVars, nccVars, corrVars, genVars, loopVars >>
corrRest == << crcVars, nccVars, diagVars, genVars, loopVars >>
genRest == << crcVars, nccVars, diagVars, corrVars, loopVars >>
loopRest == << crcVars, nccVars, diagVars, corrVars, genVars >>

vars == << crcVars, nccVars, diagVars, corrVars, genVars, loopVars >>

(***************************************************************************)
(* Bounds of the model.                                                    *)
(***************************************************************************)
\* longest '0'/'1' string passed to calculate_crc8 with the default polynomial
MaxBits == 8
\* longest input tried with every polynomial 0..255
MaxPolyBits == 2
\* longest list of booleans passed to calculate_crc8
MaxBoolBits == 3
\* longest input whose XOR with every list of its length is tried
MaxXorBits == 4

\* longest trace in the legacy format (scores only)
MaxTrace == 5
\* longest '0'/'1' string of the exhaustive calls of analyze_bit_errors
MaxDiagBits == 5
\* most flipped bits in a long call of analyze_bit_errors
MaxErrors == 3
\* most bits missing at the end of the received copy in a long call
MaxCut == 1
\* longest text of INPUT.txt / OUTPUT.txt read by the file tools
MaxFileChars == 2
\* longest template and longest sample buffer of the correlation pass
MaxTemplate == 2
MaxSamples == 3
\* most candidate peaks in a two-column trace
MaxPeaks == 4
\* largest sample index of the first row of a two-column trace
MaxStart == 4
\* generate_bits: longest short string, longest remainder after a full chunk
\* and largest block size n
MaxGenLength == 7
MaxGenRem == 2
MaxGenN == 3
\* the loopback recorder: longest recording buffer, largest block of a
\* callback and most callbacks
MaxCapacity == 4
MaxBlock == 2
MaxCallbacks == 3

(***************************************************************************)
(* Program constants.                                                      *)
(***************************************************************************)
\* sample_rate = 44100.0
SampleRate == 44100
\* threshold = 0.35, in hundredths
Threshold == 35
\* the merge window 0.1 s is 1/WindowPerSecond s
WindowPerSecond == 10
\* bitRate = 1000 in int(sample_rate / 1000.0)
BitRate == 1000
\* preamble_samples = 440
PreambleSamples == 440
\* peaks[:3]
AnalyzedPeaks == 3
\* max_ncc * 0.7: seven tenths
RelaxTenths == 7
\* avg_ncc < 0.5 and avg_ncc > 0.8, in hundredths
LowNcc == 50
HighNcc == 80
\* polynomial=0xD7
DefaultPolynomial == 215
\* 0x80, the top bit of the register
TopBit == 128
\* 0xFF + 1: "crc &= 0xFF" keeps crc modulo 256
ByteMod == 256
\* for _ in range(8)
ShiftRounds == 8
\* crc_to_bits: range(8), and the frame's trailer full_frame[-8:]
CrcWidth == 8
\* generate_bits: chunk = 64
Chunk == 64

(***************************************************************************)
(* Integer helpers.                                                        *)
(***************************************************************************)
RECURSIVE BitXor(_, _)
\* Python's a ^ b on non-negative integers
BitXor(a, b) ==
    IF a = 0 THEN b
    ELSE IF b = 0 THEN a
    ELSE (((a % 2) + (b % 2)) % 2) + 2 * BitXor(a \div 2, b \div 2)

\* Python's a & 0x80 as a truth value
TopBitSet(a) == (a \div TopBit) % 2 = 1

RECURSIVE SeqsUpTo(_, _)
\* all sequences over S of length 0..n
SeqsUpTo(S, n) ==
    IF n = 0 THEN { << >> }
    ELSE LET shorter == SeqsUpTo(S, n - 1)
         IN  shorter \cup { Append(s, x) : s \in shorter, x \in S }

(***************************************************************************)
(* calculate_crc8 (test_crc.py:7-31).                                      *)
(***************************************************************************)
\* a '0'/'1' string argument and a list-of-bool argument
StrArg(s) == [kind |-> "str", val |-> s]
ListArg(l) == [kind |-> "list", val |-> l]

\* lines 18-19: a string becomes [c == '1' for c in data_bits]
ToBoolList(arg) ==
    IF arg.kind = "str"
    THEN [i \in 1..Len(arg.val) |-> arg.val[i] = "1"]
    ELSE arg.val

\* lines 25-28: one shift round; the register is not masked here
CrcShiftRound(c, poly) ==
    IF TopBitSet(c) THEN BitXor(c * 2, poly) ELSE c * 2

RECURSIVE CrcShiftLoop(_, _, _)
\* line 24: for _ in range(n)
CrcShiftLoop(c, poly, n) ==
    IF n = 0 \/ c \notin Nat THEN c
    ELSE CrcShiftLoop(CrcShiftRound(c, poly), poly, n - 1)

\* the loop body without line 29: the register is never masked
CrcProcessBitNoMask(c, bit, poly) ==
    CrcShiftLoop(BitXor(c, IF bit THEN TopBit ELSE 0), poly, ShiftRounds)

\* the loop body with range(7) in place of range(8)
CrcProcessBit7Rounds(c, bit, poly) ==
    CrcShiftLoop(BitXor(c, IF bit THEN TopBit ELSE 0), poly, ShiftRounds - 1) % ByteMod

\* the loop body with crc |= 0x80 in place of crc ^= 0x80
CrcProcessBitOr(c, bit, poly) ==
    CrcShiftLoop(IF bit /\ ~TopBitSet(c) THEN c + TopBit ELSE c, poly, ShiftRounds) % ByteMod

\* lines 23-29: the loop body for one input bit

CrcProcessBit(c, bit, poly) ==
    CrcShiftLoop(BitXor(c, IF bit THEN TopBit ELSE 0), poly, ShiftRounds) % ByteMod

RECURSIVE CrcLoop(_, _, _, _)
\* lines 22-29 from input bit k on, with the register at c
CrcLoop(bits, poly, c, k) ==
    IF k > Len(bits) THEN c
    ELSE LET r == CrcProcessBit(c, bits[k], poly)
         IN  \* the test evaluates r before the next iteration starts
             IF r \in Nat THEN CrcLoop(bits, poly, r, k + 1) ELSE r

\* line 21 with another start value: crc = 0xFF
CrcInitAllOnes == ByteMod - 1

\* line 21: crc = 0
CrcInit == 0

\* the function with a register that is kept between calls instead of the
\* local of line 21: the loop starts from what the last call left
calculate_crc8FromRegister(arg, poly) == CrcLoop(ToBoolList(arg), poly, crc, 1)

\* the whole function
calculate_crc8(arg, poly) == CrcLoop(ToBoolList(arg), poly, CrcInit, 1)

(***************************************************************************)
(* crc_to_bits (test_crc.py:33-35) and int(s, 2).                          *)
(***************************************************************************)
\* str((crc_byte >> (7-i)) & 1) for i in range(8), joined
crc_to_bitsLsbFirst(crc_byte) ==
    [i \in 1..CrcWidth |->
        IF (crc_byte \div (2 ^ (i - 1))) % 2 = 1 THEN "1" ELSE "0"]

crc_to_bits(crc_byte) ==
    [i \in 1..CrcWidth |->
        IF (crc_byte \div (2 ^ (CrcWidth - i))) % 2 = 1 THEN "1" ELSE "0"]

RECURSIVE ParseBinary(_)
\* int(s, 2) on a string of '0'/'1'
ParseBinary(s) ==
    IF Len(s) = 0 THEN 0
    ELSE 2 * ParseBinary(SubSeq(s, 1, Len(s) - 1))
         + (IF s[Len(s)] = "1" THEN 1 ELSE 0)

\* s[:-8] and s[-8:] of a string of at least 8 symbols
DropTrailer(s) == SubSeq(s, 1, Len(s) - CrcWidth)
Trailer(s) == SubSeq(s, Len(s) - CrcWidth + 1, Len(s))

\* '0' if c == '1' else '1' at index i (0-based), as in test_error_detection
FlipSymbol(s, i) ==
    [k \in 1..Len(s) |-> IF k = i + 1 THEN (IF s[k] = "1" THEN "0" ELSE "1") ELSE s[k]]

(***************************************************************************)
(* The state machine of one calculate_crc8 call and of the two harness     *)
(* routines that use its result.                                           *)
(***************************************************************************)
Symbols == {"0", "1"}

\* the diagnostics and the file tools are not running
NoBer == [num |-> 0, den |-> 1]

DiagIdle ==
    /\ diag_pc = "idle"
    /\ entry = "none"
    /\ arg_input = << >>
    /\ arg_output = << >>
    /\ input_bits = << >>
    /\ output_bits = << >>
    /\ format_error = "none"
    /\ length_flagged = FALSE
    /\ cmp_i = 0
    /\ errors = << >>
    /\ total_bits = 0
    /\ error_count = 0
    /\ ber = NoBer
    /\ early_threshold = 0
    /\ late_threshold = 0
    /\ early_errors = << >>
    /\ middle_errors = << >>
    /\ late_errors = << >>
    /\ findings = {}
    /\ burst_i = 0
    /\ current_burst = << >>
    /\ bursts = << >>
    /\ rating = "none"
    /\ file_crc = -1

\* generate_bits is not running
GenIdle ==
    /\ gen_pc = "idle"
    /\ gen_length = 0
    /\ gen_mode = "random"
    /\ gen_n = 1
    /\ gen_chunks = << >>
    /\ gen_out = << >>

\* no AudioLoopbackTester exists
LoopIdle ==
    /\ loop_pc = "idle"
    /\ capacity = 0
    /\ samplesRecorded = 0
    /\ samplesPlayed = 0
    /\ recordedAudio = << >>
    /\ callbacks = << >>
    /\ overrun = FALSE
    /\ dropped = FALSE
    /\ lastOutput = "none"

\* the correlation detector is not running
CorrIdle ==
    /\ corr_pc = "idle"
    /\ template = << >>
    /\ samples = << >>
    /\ corr_offset = 0
    /\ corr_scores = << >>

\* analyze_ncc_file is not running
\* current_peak before the merge pass has started
NoPeak == [sample |-> -1, ncc |-> 0]

NccIdle ==
    /\ ncc_pc = "idle"
    /\ sample_indices = << >>
    /\ ncc_values = << >>
    /\ scan_i = 1
    /\ peaks = << >>
    /\ current_peak = NoPeak
    /\ merge_i = 1
    /\ filtered_peaks = << >>
    /\ clusters = << >>
    /\ max_ncc = 0
    /\ recommended = 0
    /\ quality = "none"
    /\ offset_i = 0
    /\ alignments = << >>
    /\ plot_data_start = -1
    /\ recommendation = "none"

\* the CRC harness is not running
CrcIdle ==
    /\ crc_pc = "idle"
    /\ crc_arg = StrArg(<< >>)
    /\ polynomial = DefaultPolynomial
    /\ data_bits = << >>
    /\ bit_pos = 0
    /\ crc = 0
    /\ err_i = 0
    /\ corrupted_crc = 0
    /\ errors_detected = 0
    /\ crc_bits = << >>
    /\ full_frame = << >>
    /\ payload_received = << >>
    /\ crc_received = 0
    /\ crc_calculated = 0

InitCrc ==
    /\ NccIdle
    /\ DiagIdle
    /\ CorrIdle
    /\ GenIdle
    /\ LoopIdle
    /\ crc_pc = "call"
    /\ \/ /\ polynomial = DefaultPolynomial
          /\ \E s \in SeqsUpTo(Symbols, MaxBits) : crc_arg = StrArg(s)
       \/ /\ polynomial \in 0..(ByteMod - 1)
          /\ \E s \in SeqsUpTo(Symbols, MaxPolyBits) : crc_arg = StrArg(s)
       \/ /\ polynomial = DefaultPolynomial
          /\ \E l \in SeqsUpTo(BOOLEAN, MaxBoolBits) : crc_arg = ListArg(l)
    /\ data_bits = << >>
    /\ bit_pos = 0
    /\ crc = 0
    /\ err_i = 0
    /\ corrupted_crc = 0
    /\ errors_detected = 0
    /\ crc_bits = << >>
    /\ full_frame = << >>
    /\ payload_received = << >>
    /\ crc_received = 0
    /\ crc_calculated = 0

harnessVars == << err_i, corrupted_crc, errors_detected, crc_bits, full_frame,
                  payload_received, crc_received, crc_calculated >>

\* lines 18-21: convert the argument, crc = 0
CrcEnter ==
    /\ crc_pc = "call"
    /\ data_bits' = ToBoolList(crc_arg)
    /\ crc' = CrcInit
    /\ bit_pos' = 0
    /\ crc_pc' = "loop"
    /\ UNCHANGED << crc_arg, polynomial, harnessVars >>
    /\ UNCHANGED crcRest

\* lines 22-29: one iteration of "for bit in data_bits"
CrcBit ==
    /\ crc_pc = "loop"
    /\ bit_pos < Len(data_bits)
    /\ crc' = CrcProcessBit(crc, data_bits[bit_pos + 1], polynomial)
    /\ bit_pos' = bit_pos + 1
    /\ UNCHANGED << crc_pc, crc_arg, polynomial, data_bits, harnessVars >>
    /\ UNCHANGED crcRest

\* line 31: return crc
CrcReturn ==
    /\ crc_pc = "loop"
    /\ bit_pos = Len(data_bits)
    /\ crc_pc' = "returned"
    /\ UNCHANGED << crc_arg, polynomial, data_bits, bit_pos, crc, harnessVars >>
    /\ UNCHANGED crcRest

\* the harness calls calculate_crc8(data) on a string with the default polynomial
HarnessCall == crc_arg.kind = "str" /\ polynomial = DefaultPolynomial

\* test_error_detection, lines 70-77: original_crc is the value just returned
TestErrorBegin ==
    /\ crc_pc = "returned"
    /\ HarnessCall
    /\ err_i' = 0
    /\ errors_detected' = 0
    /\ crc_pc' = "err_loop"
    /\ UNCHANGED << crc_arg, polynomial, data_bits, bit_pos, crc, corrupted_crc,
                    crc_bits, full_frame, payload_received, crc_received,
                    crc_calculated >>
    /\ UNCHANGED crcRest

\* test_error_detection, lines 78-87: one iteration of the single-bit loop
TestErrorFlip ==
    /\ crc_pc = "err_loop"
    /\ err_i < Len(crc_arg.val)
    /\ LET corrupted == FlipSymbol(crc_arg.val, err_i)
           c == calculate_crc8(StrArg(corrupted), DefaultPolynomial)
       IN  /\ corrupted_crc' = c
           /\ errors_detected' = IF c # crc THEN errors_detected + 1
                                 ELSE errors_detected
    /\ err_i' = err_i + 1
    /\ UNCHANGED << crc_pc, crc_arg, polynomial, data_bits, bit_pos, crc,
                    crc_bits, full_frame, payload_received, crc_received,
                    crc_calculated >>
    /\ UNCHANGED crcRest

\* test_error_detection, line 89: the loop is over
TestErrorEnd ==
    /\ crc_pc = "err_loop"
    /\ err_i = Len(crc_arg.val)
    /\ crc_pc' = "err_done"
    /\ UNCHANGED << crc_arg, polynomial, data_bits, bit_pos, crc, harnessVars >>
    /\ UNCHANGED crcRest

\* test_file_crc, lines 130-143: crc_bits and the transmitted frame; main
\* runs test_file_crc after test_error_detection (lines 242-243)
FileCrcFrame ==
    /\ crc_pc \in {"returned", "err_done"}
    /\ HarnessCall
    /\ crc_bits' = crc_to_bits(crc)
    /\ full_frame' = crc_arg.val \o crc_to_bits(crc)
    /\ crc_pc' = "framed"
    /\ UNCHANGED << crc_arg, polynomial, data_bits, bit_pos, crc, err_i,
                    corrupted_crc, errors_detected, payload_received,
                    crc_received, crc_calculated >>
    /\ UNCHANGED crcRest

\* test_file_crc, lines 147-149: split the frame and recompute
FileCrcVerify ==
    /\ crc_pc = "framed"
    /\ payload_received' = DropTrailer(full_frame)
    /\ crc_received' = ParseBinary(Trailer(full_frame))
    /\ crc_calculated' = calculate_crc8(StrArg(DropTrailer(full_frame)), DefaultPolynomial)
    /\ crc_pc' = "verified"
    /\ UNCHANGED << crc_arg, polynomial, data_bits, bit_pos, crc, err_i,
                    corrupted_crc, errors_detected, crc_bits, full_frame >>
    /\ UNCHANGED crcRest

NextCrc ==
    \/ CrcEnter
    \/ CrcBit
    \/ CrcReturn
    \/ TestErrorBegin
    \/ TestErrorFlip
    \/ TestErrorEnd
    \/ FileCrcFrame
    \/ FileCrcVerify

(***************************************************************************)
(* analyze_ncc_file (diagnose_sync_offset.py:11-184).                      *)
(* A peak is the dictionary {'sample', 'time', 'ncc'}; its 'time' is       *)
(* sample / sample_rate, so the record keeps the sample and the score and  *)
(* a time difference is a difference of samples over SampleRate.           *)
(***************************************************************************)
\* a score below the threshold (0.20)
ValleyScore == Threshold - 15
\* the scores of a legacy trace: below, at and above the threshold
Scores == {ValleyScore, Threshold, 50, 80}
\* two-column traces: the rows between candidates have the score
\* ValleyScore; the scores of the candidates, and the distances between
\* successive candidates (half a merge window, one merge window, one and a
\* half)
PeakScores == {50, 80}
CandGaps == {2205, 4410, 6615}

\* int(sample_rate / 1000.0)
samples_per_bit == SampleRate \div BitRate

\* np.arange(len(ncc_values))
Arange(n) == [k \in 1..n |-> k - 1]

\* lines 38-40 with >= against the right neighbour
IsLocalPeakPlateau(values, i) ==
    /\ values[i + 1] > Threshold
    /\ values[i + 1] > values[i]
    /\ values[i + 1] >= values[i + 2]

\* lines 38-40 at the 0-based index i
IsLocalPeak(values, i) ==
    /\ values[i + 1] > Threshold
    /\ values[i + 1] > values[i]
    /\ values[i + 1] > values[i + 2]

\* lines 41-45: the dictionary appended for the 0-based index i
PeakAt(indices, values, i) == [sample |-> indices[i + 1], ncc |-> values[i + 1]]

\* line 53 with the samples themselves compared to 0.1
WithinWindowInSamples(from, to) == { (to - from) * WindowPerSecond < 1 }

\* line 53: peak['time'] - current_peak['time'] < 0.1 for peaks at the
\* samples from < to.  The times are doubles: when the samples are exactly
\* 0.1 s apart the rounded difference is below 0.1 for some pairs and not
\* for others ((6+4410)/44100.0 - 6/44100.0 < 0.1 is true, with 0 for 6 it
\* is false), so both outcomes are possible there.
WithinWindow(from, to) ==
    IF (to - from) * WindowPerSecond = SampleRate THEN BOOLEAN
    ELSE { (to - from) * WindowPerSecond < SampleRate }

\* lines 55-56 taking over the higher score but not its sample
KeepHigherScoreOnly(current, peak) ==
    IF peak.ncc > current.ncc THEN [sample |-> current.sample, ncc |-> peak.ncc]
    ELSE current

\* lines 55-56 with >= in place of >
KeepHigherOrEqual(current, peak) == IF peak.ncc >= current.ncc THEN peak ELSE current

\* lines 55-56: keep the higher one
KeepHigher(current, peak) == IF peak.ncc > current.ncc THEN peak ELSE current

\* line 77: np.max(ncc_values) of a non-empty trace
MaxNcc(values) ==
    CHOOSE v \in { values[k] : k \in 1..Len(values) } :
        \A k \in 1..Len(values) : v >= values[k]

RECURSIVE SumNcc(_)
\* the sum behind np.mean([p['ncc'] for p in peaks])
SumNcc(ps) == IF Len(ps) = 0 THEN 0 ELSE ps[1].ncc + SumNcc(Tail(ps))

\* lines 92-100: the branch taken on avg_ncc
QualityOf(ps) ==
    IF SumNcc(ps) < LowNcc * Len(ps) THEN "low"
    ELSE IF SumNcc(ps) > HighNcc * Len(ps) THEN "excellent"
    ELSE "acceptable"

\* lines 110-120 with a warning up to and including 3/4 of the bit period
AlignmentWideWarning(peak) ==
    LET data_start_sample == peak.sample + 1
        offset_within_bit == data_start_sample % samples_per_bit
    IN  [ sample |-> peak.sample,
          data_start_sample |-> data_start_sample,
          offset_within_bit |-> offset_within_bit,
          alignment_error |->
              IF offset_within_bit < samples_per_bit - offset_within_bit
              THEN offset_within_bit ELSE samples_per_bit - offset_within_bit,
          warning |-> /\ 4 * offset_within_bit > samples_per_bit
                      /\ 4 * offset_within_bit <= 3 * samples_per_bit ]

\* lines 110-120 with the alignment error always counted from the end of
\* the bit period (the min of line 116 left out)
AlignmentFromPeriodEnd(peak) ==
    LET data_start_sample == peak.sample + 1
        offset_within_bit == data_start_sample % samples_per_bit
    IN  [ sample |-> peak.sample,
          data_start_sample |-> data_start_sample,
          offset_within_bit |-> offset_within_bit,
          alignment_error |-> samples_per_bit - offset_within_bit,
          warning |-> /\ 4 * offset_within_bit > samples_per_bit
                      /\ 4 * offset_within_bit < 3 * samples_per_bit ]

\* lines 110-120: what the offset analysis reports for one peak; the
\* warning test offset > samples_per_bit / 4 and offset < 3 * samples_per_bit / 4
\* is on exact quarters (11.0 and 33.0)
Alignment(peak) ==
    LET data_start_sample == peak.sample + 1
        offset_within_bit == data_start_sample % samples_per_bit
    IN  [ sample |-> peak.sample,
          data_start_sample |-> data_start_sample,
          offset_within_bit |-> offset_within_bit,
          alignment_error |->
              IF offset_within_bit < samples_per_bit - offset_within_bit
              THEN offset_within_bit ELSE samples_per_bit - offset_within_bit,
          warning |-> /\ 4 * offset_within_bit > samples_per_bit
                      /\ 4 * offset_within_bit < 3 * samples_per_bit ]

RECURSIVE CandSample(_, _, _)
\* two-column traces: the sample of candidate j, the first one at start + 1
CandSample(start, gaps, j) ==
    IF j = 1 THEN start + 1 ELSE CandSample(start, gaps, j - 1) + gaps[j - 1]

\* a two-column trace with k candidates: a low row one sample before each
\* candidate and one after the last
CombIndices(start, gaps, k) ==
    [r \in 1..(2 * k + 1) |->
        IF r = 2 * k + 1 THEN CandSample(start, gaps, k) + 1
        ELSE IF r % 2 = 0 THEN CandSample(start, gaps, r \div 2)
        ELSE CandSample(start, gaps, (r + 1) \div 2) - 1]

CombValues(scores, k) ==
    [r \in 1..(2 * k + 1) |-> IF r % 2 = 0 THEN scores[r \div 2] ELSE ValleyScore]

\* the file analyze_ncc_file is given: scores only (the legacy format, the
\* samples are 0, 1, 2, ...) or a sample index and a score per row
InitNcc ==
    /\ CrcIdle
    /\ DiagIdle
    /\ CorrIdle
    /\ GenIdle
    /\ LoopIdle
    /\ ncc_pc = "load"
    /\ \/ \E values \in SeqsUpTo(Scores, MaxTrace) :
             /\ ncc_values = values
             /\ sample_indices = Arange(Len(values))
       \/ \E k \in 1..MaxPeaks :
             \E start \in 0..MaxStart :
                \E gaps \in [1..(k - 1) -> CandGaps] :
                   \E scores \in [1..k -> PeakScores] :
                      /\ ncc_values = CombValues(scores, k)
                      /\ sample_indices = CombIndices(start, gaps, k)
    /\ scan_i = 1
    /\ peaks = << >>
    /\ current_peak = NoPeak
    /\ merge_i = 1
    /\ filtered_peaks = << >>
    /\ clusters = << >>
    /\ max_ncc = 0
    /\ recommended = 0
    /\ quality = "none"
    /\ offset_i = 0
    /\ alignments = << >>
    /\ plot_data_start = -1
    /\ recommendation = "none"

reportVars == << max_ncc, recommended, quality, offset_i, alignments,
                 plot_data_start, recommendation >>
mergeVars == << current_peak, merge_i, filtered_peaks, clusters >>
traceVars == << sample_indices, ncc_values >>

\* lines 19-35: np.loadtxt gives a file of two columns as a 2-D array and a
\* file of one column as a 1-D array; the trace is ready for the scan
Load ==
    /\ ncc_pc = "load"
    /\ Len(ncc_values) # 1
    /\ ncc_pc' = "detect"
    /\ UNCHANGED << traceVars, scan_i, peaks, mergeVars, reportVars >>
    /\ UNCHANGED nccRest

\* lines 19-28: np.loadtxt squeezes a file of a single score into a 0-d
\* array; data.ndim is 0, the legacy branch is taken and len(ncc_values)
\* raises TypeError
LoadCrash ==
    /\ ncc_pc = "load"
    /\ Len(ncc_values) = 1
    /\ ncc_pc' = "crashed"
    /\ UNCHANGED << traceVars, scan_i, peaks, mergeVars, reportVars >>
    /\ UNCHANGED nccRest

\* lines 37-45: one iteration of "for i in range(1, len(ncc_values) - 1)"
DetectStep ==
    /\ ncc_pc = "detect"
    /\ scan_i < Len(ncc_values) - 1
    /\ peaks' = IF IsLocalPeak(ncc_values, scan_i)
                THEN Append(peaks, PeakAt(sample_indices, ncc_values, scan_i))
                ELSE peaks
    /\ scan_i' = scan_i + 1
    /\ UNCHANGED << ncc_pc, traceVars, mergeVars, reportVars >>
    /\ UNCHANGED nccRest

\* line 37: the range is exhausted
DetectEnd ==
    /\ ncc_pc = "detect"
    /\ scan_i >= Len(ncc_values) - 1
    /\ ncc_pc' = "filter"
    /\ UNCHANGED << traceVars, scan_i, peaks, mergeVars, reportVars >>
    /\ UNCHANGED nccRest

\* lines 48-50: there are candidates; the first one opens the first cluster
FilterBegin ==
    /\ ncc_pc = "filter"
    /\ Len(peaks) > 0
    /\ filtered_peaks' = << >>
    /\ current_peak' = peaks[1]
    /\ merge_i' = 2
    /\ clusters' = << << peaks[1] >> >>
    /\ ncc_pc' = "merge"
    /\ UNCHANGED << traceVars, scan_i, peaks, reportVars >>
    /\ UNCHANGED nccRest

\* line 48: "if peaks" is false
FilterSkip ==
    /\ ncc_pc = "filter"
    /\ Len(peaks) = 0
    /\ ncc_pc' = "report"
    /\ UNCHANGED << traceVars, scan_i, peaks, mergeVars, reportVars >>
    /\ UNCHANGED nccRest

\* lines 52-59: one iteration of "for peak in peaks[1:]"
MergeStep ==
    /\ ncc_pc = "merge"
    /\ merge_i <= Len(peaks)
    /\ LET peak == peaks[merge_i]
       IN  \E within \in WithinWindow(current_peak.sample, peak.sample) :
              IF within
              THEN /\ current_peak' = KeepHigher(current_peak, peak)
                   /\ filtered_peaks' = filtered_peaks
                   /\ clusters' = [clusters EXCEPT ![Len(clusters)] = Append(@, peak)]
              ELSE /\ filtered_peaks' = Append(filtered_peaks, current_peak)
                   /\ current_peak' = peak
                   /\ clusters' = Append(clusters, << peak >>)
    /\ merge_i' = merge_i + 1
    /\ UNCHANGED << ncc_pc, traceVars, scan_i, peaks, reportVars >>
    /\ UNCHANGED nccRest

\* lines 60-61: the last cluster is emitted, peaks = filtered_peaks
MergeEnd ==
    /\ ncc_pc = "merge"
    /\ merge_i > Len(peaks)
    /\ filtered_peaks' = Append(filtered_peaks, current_peak)
    /\ peaks' = Append(filtered_peaks, current_peak)
    /\ ncc_pc' = "report"
    /\ UNCHANGED << traceVars, scan_i, current_peak, merge_i, clusters, reportVars >>
    /\ UNCHANGED nccRest

\* line 67: time_axis[-1] of an empty trace raises IndexError
ReportCrash ==
    /\ ncc_pc = "report"
    /\ Len(ncc_values) = 0
    /\ ncc_pc' = "crashed"
    /\ UNCHANGED << traceVars, scan_i, peaks, mergeVars, reportVars >>
    /\ UNCHANGED nccRest

\* lines 63-100: the report; without peaks the maximum and the recommended
\* threshold, with peaks the quality branch
Report ==
    /\ ncc_pc = "report"
    /\ Len(ncc_values) > 0
    /\ IF Len(peaks) = 0
       THEN /\ max_ncc' = MaxNcc(ncc_values)
            /\ recommended' = MaxNcc(ncc_values) * RelaxTenths
            /\ quality' = "no_peaks"
       ELSE /\ quality' = QualityOf(peaks)
            /\ UNCHANGED << max_ncc, recommended >>
    /\ offset_i' = 0
    /\ ncc_pc' = "offset"
    /\ UNCHANGED << traceVars, scan_i, peaks, mergeVars, alignments,
                    plot_data_start, recommendation >>
    /\ UNCHANGED nccRest

\* lines 109-120: one iteration of "for i, peak in enumerate(peaks[:3])"
OffsetStep ==
    /\ ncc_pc = "offset"
    /\ offset_i < Len(peaks)
    /\ offset_i < AnalyzedPeaks
    /\ alignments' = Append(alignments, Alignment(peaks[offset_i + 1]))
    /\ offset_i' = offset_i + 1
    /\ UNCHANGED << ncc_pc, traceVars, scan_i, peaks, mergeVars, max_ncc,
                    recommended, quality, plot_data_start, recommendation >>
    /\ UNCHANGED nccRest

\* lines 122-184: the plot (its "Expected Data Start" line is drawn at the
\* first peak plus preamble_samples) and the recommendations
Finish ==
    /\ ncc_pc = "offset"
    /\ offset_i >= Len(peaks) \/ offset_i >= AnalyzedPeaks
    /\ plot_data_start' = IF Len(peaks) > 0 THEN peaks[1].sample + PreambleSamples
                          ELSE -1
    /\ recommendation' = IF Len(peaks) = 0 THEN "lower_threshold"
                         ELSE IF quality = "low" THEN "improve_acoustics"
                         ELSE "fine_tune"
    /\ ncc_pc' = "done"
    /\ UNCHANGED << traceVars, scan_i, peaks, mergeVars, max_ncc, recommended,
                    quality, offset_i, alignments >>
    /\ UNCHANGED nccRest

NextNcc ==
    \/ Load
    \/ LoadCrash
    \/ DetectStep
    \/ DetectEnd
    \/ FilterBegin
    \/ FilterSkip
    \/ MergeStep
    \/ MergeEnd
    \/ ReportCrash
    \/ Report
    \/ OffsetStep
    \/ Finish


(***************************************************************************)
(* analyze_bit_errors and main (test_synchronization.py:15-149, 184-214),  *)
(* test_file_crc up to its CRC (test_crc.py:110-130) and                   *)
(* test_receiver_output (test_crc.py:156-207).  INPUT.txt and OUTPUT.txt   *)
(* exist; arg_input and arg_output are their stripped texts.  A fraction   *)
(* e / n is kept as [num |-> e, den |-> n].                                *)
(***************************************************************************)
\* the characters of a bit file: the two bits and one other character
FileChars == {"0", "1", "x"}

\* the fifths of total_bits taken at lines 49 and 53 (0.2 and 0.8)
EarlyFifths == 1
LateFifths == 4
\* line 92: burst_threshold
BurstThreshold == 10
\* lines 100, 104: a run is a burst from this many errors on
MinBurst == 3

\* the long calls: '01' repeated 50 times against a copy with flipped bits,
\* possibly cut short
ScenarioBits == 2 * 50
ErrPositions == {0, 3, 7, 10, 13, 19, 20, 21, 50, 79, 80, 90, 99}

Alternating(n) == [k \in 1..n |-> IF k % 2 = 1 THEN "0" ELSE "1"]

\* the copy of s with the bits at the 0-based positions of ps flipped
FlipAll(s, ps) ==
    [k \in 1..Len(s) |->
        IF (k - 1) \in ps THEN (IF s[k] = "0" THEN "1" ELSE "0") ELSE s[k]]

\* min(len(a), len(b))
MinLen(a, b) == IF Len(a) < Len(b) THEN Len(a) ELSE Len(b)

\* s[:n]
Prefix(s, n) == SubSeq(s, 1, n)

\* re.match(r'^[01]+$', text) on a stripped text
MatchesBits(text) ==
    /\ Len(text) > 0
    /\ \A k \in 1..Len(text) : text[k] \in Symbols

\* all(c in '01' for c in data)
AllBits(text) == \A k \in 1..Len(text) : text[k] \in Symbols

\* the comparison with the position after the differing one recorded
ErrorsAfterOffByOne(errs, i, expected, actual) ==
    IF expected # actual THEN Append(errs, i + 1) ELSE errs

\* test_synchronization.py:26-27 / test_crc.py:192-193: one comparison
ErrorsAfter(errs, i, expected, actual) ==
    IF expected # actual THEN Append(errs, i) ELSE errs

\* line 31: error_count / total_bits if total_bits > 0 else 0
BerOf(count, total) ==
    IF total > 0 THEN [num |-> count, den |-> total] ELSE [num |-> 0, den |-> 1]

\* int(total_bits * 0.02)
EarlyThresholdFiftieth(total) == total \div 50

\* line 49: int(total_bits * 0.2)
EarlyThreshold(total) == (total * EarlyFifths) \div 5

\* line 53: int(total_bits * 0.8)
LateThreshold(total) == (total * LateFifths) \div 5

\* lines 50, 54, 57: the three groups of error positions
EarlyOf(errs, early) == SelectSeq(errs, LAMBDA e : e < early)
LateOf(errs, late) == SelectSeq(errs, LAMBDA e : e >= late)
MiddleOf(errs, early, late) == SelectSeq(errs, LAMBDA e : early <= e /\ e < late)

\* lines 66-79: the branch taken (x > error_count * 0.5 is 2 x > error_count)
ConcentrationOf(early, late, count) ==
    IF 2 * Len(early) > count THEN "early"
    ELSE IF 2 * Len(late) > count THEN "late"
    ELSE "distributed"

\* line 83: the gaps between successive errors
GapsOf(errs) == [k \in 1..(Len(errs) - 1) |-> errs[k + 1] - errs[k]]

RECURSIVE SumOf(_)
SumOf(q) == IF q = << >> THEN 0 ELSE Head(q) + SumOf(Tail(q))

\* lines 84-87: std_gap < avg_gap * 0.3.  With n gaps of sum S and sum of
\* squares Q this is 100 (n Q - S^2) < 9 S^2; when the two sides are equal
\* the rounding of the floating-point square root and product decides
PeriodicTest(gaps) ==
    LET n == Len(gaps)
        S == SumOf(gaps)
        Q == SumOf([k \in 1..n |-> gaps[k] * gaps[k]])
        lhs == 100 * (n * Q - S * S)
        rhs == 9 * S * S
    IN  IF lhs < rhs THEN {TRUE} ELSE IF lhs = rhs THEN BOOLEAN ELSE {FALSE}

\* a run of any length kept as a burst
WithRunOfAnyLength(bs, run) == Append(bs, run)

\* lines 100-101, 104-105: a run of MinBurst errors or more is a burst
WithRun(bs, run) == IF Len(run) >= MinBurst THEN Append(bs, run) ELSE bs

\* lines 131-147: the branch taken on ber (0.01, 0.05, 0.15)
RatingOf(b) ==
    IF 100 * b.num < b.den THEN "excellent"
    ELSE IF 20 * b.num < b.den THEN "acceptable"
    ELSE IF 100 * b.num < 15 * b.den THEN "poor"
    ELSE "critical"

\* the subsets of S of at most n elements
SubsetsUpTo(S, n) == { T \in SUBSET S : Cardinality(T) <= n }

\* the locals of a routine right after it was entered
DiagFresh ==
    /\ input_bits = arg_input
    /\ output_bits = arg_output
    /\ format_error = "none"
    /\ length_flagged = FALSE
    /\ cmp_i = 0
    /\ errors = << >>
    /\ total_bits = 0
    /\ error_count = 0
    /\ ber = NoBer
    /\ early_threshold = 0
    /\ late_threshold = 0
    /\ early_errors = << >>
    /\ middle_errors = << >>
    /\ late_errors = << >>
    /\ findings = {}
    /\ burst_i = 0
    /\ current_burst = << >>
    /\ bursts = << >>
    /\ rating = "none"
    /\ file_crc = -1

\* one call: analyze_bit_errors on two strings of bits, or one of the tools
\* that read the bit files
InitDiag ==
    /\ CrcIdle
    /\ NccIdle
    /\ CorrIdle
    /\ GenIdle
    /\ LoopIdle
    /\ \/ /\ entry = "analyze_bit_errors"
          /\ diag_pc = "abe_call"
          /\ \/ /\ arg_input \in SeqsUpTo(Symbols, MaxDiagBits)
                /\ arg_output \in SeqsUpTo(Symbols, MaxDiagBits)
             \/ \E ps \in SubsetsUpTo(ErrPositions, MaxErrors) :
                   \E cut \in 0..MaxCut :
                      /\ arg_input = Alternating(ScenarioBits)
                      /\ arg_output = Prefix(FlipAll(Alternating(ScenarioBits), ps),
                                             ScenarioBits - cut)
       \/ /\ entry \in {"main", "test_receiver_output"}
          /\ diag_pc = "call"
          /\ arg_input \in SeqsUpTo(FileChars, MaxFileChars)
          /\ arg_output \in SeqsUpTo(FileChars, MaxFileChars)
       \/ /\ entry = "test_file_crc"
          /\ diag_pc = "call"
          /\ arg_input \in SeqsUpTo(FileChars, MaxFileChars)
          /\ arg_output = << >>
    /\ DiagFresh

argVars == << entry, arg_input, arg_output >>
compareVars == << length_flagged, cmp_i, errors >>
statVars == << total_bits, error_count, ber >>
groupVars == << early_threshold, late_threshold, early_errors, middle_errors,
                late_errors >>
burstVars == << burst_i, current_burst, bursts >>

\* test_synchronization.py main, lines 201-203: INPUT.txt is rejected
MainInputError ==
    /\ diag_pc = "call"
    /\ entry = "main"
    /\ ~MatchesBits(input_bits)
    /\ format_error' = "INPUT.txt"
    /\ diag_pc' = "done"
    /\ UNCHANGED << argVars, input_bits, output_bits, compareVars, statVars,
                    groupVars, findings, burstVars, rating, file_crc >>
    /\ UNCHANGED diagRest

\* main, lines 205-207: OUTPUT.txt is rejected
MainOutputError ==
    /\ diag_pc = "call"
    /\ entry = "main"
    /\ MatchesBits(input_bits)
    /\ ~MatchesBits(output_bits)
    /\ format_error' = "OUTPUT.txt"
    /\ diag_pc' = "done"
    /\ UNCHANGED << argVars, input_bits, output_bits, compareVars, statVars,
                    groupVars, findings, burstVars, rating, file_crc >>
    /\ UNCHANGED diagRest

\* main, line 209: both texts are accepted, analyze_bit_errors is called
MainAnalyze ==
    /\ diag_pc = "call"
    /\ entry = "main"
    /\ MatchesBits(input_bits)
    /\ MatchesBits(output_bits)
    /\ diag_pc' = "abe_call"
    /\ UNCHANGED << argVars, input_bits, output_bits, format_error, compareVars,
                    statVars, groupVars, findings, burstVars, rating, file_crc >>
    /\ UNCHANGED diagRest

\* analyze_bit_errors, lines 18-24: the mismatch is printed and both
\* strings are cut to the shorter length
AbeTruncate ==
    /\ diag_pc = "abe_call"
    /\ length_flagged' = (Len(input_bits) # Len(output_bits))
    /\ input_bits' = Prefix(input_bits, MinLen(input_bits, output_bits))
    /\ output_bits' = Prefix(output_bits, MinLen(input_bits, output_bits))
    /\ errors' = << >>
    /\ cmp_i' = 0
    /\ diag_pc' = "abe_compare"
    /\ UNCHANGED << argVars, format_error, statVars, groupVars, findings,
                    burstVars, rating, file_crc >>
    /\ UNCHANGED diagRest

\* lines 25-27: one iteration of the loop over zip(input_bits, output_bits)
AbeCompareStep ==
    /\ diag_pc = "abe_compare"
    /\ cmp_i < MinLen(input_bits, output_bits)
    /\ errors' = ErrorsAfter(errors, cmp_i, input_bits[cmp_i + 1],
                             output_bits[cmp_i + 1])
    /\ cmp_i' = cmp_i + 1
    /\ UNCHANGED << diag_pc, argVars, input_bits, output_bits, format_error,
                    length_flagged, statVars, groupVars, findings, burstVars,
                    rating, file_crc >>
    /\ UNCHANGED diagRest

\* lines 29-39: total_bits, error_count, ber and the head of the report
AbeStats ==
    /\ diag_pc = "abe_compare"
    /\ cmp_i = MinLen(input_bits, output_bits)
    /\ total_bits' = Len(input_bits)
    /\ error_count' = Len(errors)
    /\ ber' = BerOf(Len(errors), Len(input_bits))
    /\ diag_pc' = "abe_stats"
    /\ UNCHANGED << argVars, input_bits, output_bits, format_error, compareVars,
                    groupVars, findings, burstVars, rating, file_crc >>
    /\ UNCHANGED diagRest

\* lines 41-43: no error, the perfect match is printed and the routine returns
AbePerfect ==
    /\ diag_pc = "abe_stats"
    /\ error_count = 0
    /\ findings' = findings \cup {"perfect"}
    /\ diag_pc' = "done"
    /\ UNCHANGED << argVars, input_bits, output_bits, format_error, compareVars,
                    statVars, groupVars, burstVars, rating, file_crc >>
    /\ UNCHANGED diagRest

\* lines 49-61: the three groups; line 59 divides by early_threshold
AbeDistribution ==
    /\ diag_pc = "abe_stats"
    /\ error_count > 0
    /\ early_threshold' = EarlyThreshold(total_bits)
    /\ late_threshold' = LateThreshold(total_bits)
    /\ early_errors' = EarlyOf(errors, EarlyThreshold(total_bits))
    /\ late_errors' = LateOf(errors, LateThreshold(total_bits))
    /\ middle_errors' = MiddleOf(errors, EarlyThreshold(total_bits),
                                 LateThreshold(total_bits))
    /\ diag_pc' = IF EarlyThreshold(total_bits) = 0
                     \/ total_bits - LateThreshold(total_bits) = 0
                  THEN "crashed" ELSE "abe_pattern"
    /\ UNCHANGED << argVars, input_bits, output_bits, format_error, compareVars,
                    statVars, findings, burstVars, rating, file_crc >>
    /\ UNCHANGED diagRest

\* lines 66-79: early concentration, late concentration or distributed
AbeConcentration ==
    /\ diag_pc = "abe_pattern"
    /\ findings' = findings \cup
                      {ConcentrationOf(early_errors, late_errors, error_count)}
    /\ diag_pc' = "abe_gaps"
    /\ UNCHANGED << argVars, input_bits, output_bits, format_error, compareVars,
                    statVars, groupVars, burstVars, rating, file_crc >>
    /\ UNCHANGED diagRest

\* line 82: a single error, no gap analysis
AbeGapsSkip ==
    /\ diag_pc = "abe_gaps"
    /\ Len(errors) <= 1
    /\ diag_pc' = "abe_context"
    /\ UNCHANGED << argVars, input_bits, output_bits, format_error, compareVars,
                    statVars, groupVars, findings, burstVars, rating, file_crc >>
    /\ UNCHANGED diagRest

\* lines 82-94: the periodic test on the gaps, then the burst scan starts
AbePeriodic ==
    /\ diag_pc = "abe_gaps"
    /\ Len(errors) > 1
    /\ \E periodic \in PeriodicTest(GapsOf(errors)) :
          findings' = IF periodic THEN findings \cup {"periodic"} ELSE findings
    /\ current_burst' = << errors[1] >>
    /\ bursts' = << >>
    /\ burst_i' = 1
    /\ diag_pc' = "abe_burst"
    /\ UNCHANGED << argVars, input_bits, output_bits, format_error, compareVars,
                    statVars, groupVars, rating, file_crc >>
    /\ UNCHANGED diagRest

\* lines 96-102: one iteration of "for i in range(1, len(errors))"
AbeBurstStep ==
    /\ diag_pc = "abe_burst"
    /\ burst_i < Len(errors)
    /\ IF errors[burst_i + 1] - errors[burst_i] <= BurstThreshold
       THEN /\ current_burst' = Append(current_burst, errors[burst_i + 1])
            /\ bursts' = bursts
       ELSE /\ bursts' = WithRun(bursts, current_burst)
            /\ current_burst' = << errors[burst_i + 1] >>
    /\ burst_i' = burst_i + 1
    /\ UNCHANGED << diag_pc, argVars, input_bits, output_bits, format_error,
                    compareVars, statVars, groupVars, findings, rating, file_crc >>
    /\ UNCHANGED diagRest

\* lines 104-111: the last run is closed and the bursts are printed
AbeBurstEnd ==
    /\ diag_pc = "abe_burst"
    /\ burst_i = Len(errors)
    /\ LET all == WithRun(bursts, current_burst)
       IN  /\ bursts' = all
           /\ findings' = IF all # << >> THEN findings \cup {"burst"}
                          ELSE findings
    /\ diag_pc' = "abe_context"
    /\ UNCHANGED << argVars, input_bits, output_bits, format_error, compareVars,
                    statVars, groupVars, burst_i, current_burst, rating, file_crc >>
    /\ UNCHANGED diagRest

\* lines 113-149: the first error positions with their context (slices
\* within the strings), then the recommendation on ber
AbeRecommend ==
    /\ diag_pc = "abe_context"
    /\ rating' = RatingOf(ber)
    /\ diag_pc' = "done"
    /\ UNCHANGED << argVars, input_bits, output_bits, format_error, compareVars,
                    statVars, groupVars, findings, burstVars, file_crc >>
    /\ UNCHANGED diagRest

\* test_file_crc, lines 126-128: the file is rejected
FileCrcReject ==
    /\ diag_pc = "call"
    /\ entry = "test_file_crc"
    /\ ~AllBits(input_bits)
    /\ format_error' = "INPUT.txt"
    /\ diag_pc' = "done"
    /\ UNCHANGED << argVars, input_bits, output_bits, compareVars, statVars,
                    groupVars, findings, burstVars, rating, file_crc >>
    /\ UNCHANGED diagRest

\* test_file_crc, line 130: the file is accepted and its CRC computed
FileCrcAccept ==
    /\ diag_pc = "call"
    /\ entry = "test_file_crc"
    /\ AllBits(input_bits)
    /\ file_crc' = calculate_crc8(StrArg(input_bits), DefaultPolynomial)
    /\ diag_pc' = "done"
    /\ UNCHANGED << argVars, input_bits, output_bits, format_error, compareVars,
                    statVars, groupVars, findings, burstVars, rating >>
    /\ UNCHANGED diagRest

\* test_receiver_output, lines 181-189: the mismatch is printed; the
\* comparison runs over min_len positions
RoFlag ==
    /\ diag_pc = "call"
    /\ entry = "test_receiver_output"
    /\ length_flagged' = (Len(input_bits) # Len(output_bits))
    /\ errors' = << >>
    /\ cmp_i' = 0
    /\ diag_pc' = "ro_compare"
    /\ UNCHANGED << argVars, input_bits, output_bits, format_error, statVars,
                    groupVars, findings, burstVars, rating, file_crc >>
    /\ UNCHANGED diagRest

\* test_receiver_output, lines 191-193: one iteration of the comparison
RoCompareStep ==
    /\ diag_pc = "ro_compare"
    /\ cmp_i < MinLen(input_bits, output_bits)
    /\ errors' = ErrorsAfter(errors, cmp_i, input_bits[cmp_i + 1],
                             output_bits[cmp_i + 1])
    /\ cmp_i' = cmp_i + 1
    /\ UNCHANGED << diag_pc, argVars, input_bits, output_bits, format_error,
                    length_flagged, statVars, groupVars, findings, burstVars,
                    rating, file_crc >>
    /\ UNCHANGED diagRest

\* test_receiver_output, lines 195-197: no error and equal lengths
RoPerfect ==
    /\ diag_pc = "ro_compare"
    /\ cmp_i = MinLen(input_bits, output_bits)
    /\ errors = << >>
    /\ Len(input_bits) = Len(output_bits)
    /\ findings' = findings \cup {"perfect"}
    /\ diag_pc' = "done"
    /\ UNCHANGED << argVars, input_bits, output_bits, format_error, compareVars,
                    statVars, groupVars, burstVars, rating, file_crc >>
    /\ UNCHANGED diagRest

\* test_receiver_output, lines 198-207: errors or a length mismatch; line
\* 200 divides by min_len
RoErrors ==
    /\ diag_pc = "ro_compare"
    /\ cmp_i = MinLen(input_bits, output_bits)
    /\ ~(errors = << >> /\ Len(input_bits) = Len(output_bits))
    /\ findings' = findings \cup {"errors_detected"}
    /\ IF MinLen(input_bits, output_bits) = 0
       THEN /\ diag_pc' = "crashed"
            /\ ber' = ber
       ELSE /\ diag_pc' = "done"
            /\ ber' = [num |-> Len(errors), den |-> MinLen(input_bits, output_bits)]
    /\ UNCHANGED << argVars, input_bits, output_bits, format_error, compareVars,
                    total_bits, error_count, groupVars, burstVars, rating,
                    file_crc >>
    /\ UNCHANGED diagRest

NextDiag ==
    \/ MainInputError
    \/ MainOutputError
    \/ MainAnalyze
    \/ AbeTruncate
    \/ AbeCompareStep
    \/ AbeStats
    \/ AbePerfect
    \/ AbeDistribution
    \/ AbeConcentration
    \/ AbeGapsSkip
    \/ AbePeriodic
    \/ AbeBurstStep
    \/ AbeBurstEnd
    \/ AbeRecommend
    \/ FileCrcReject
    \/ FileCrcAccept
    \/ RoFlag
    \/ RoCompareStep
    \/ RoPerfect
    \/ RoErrors

(***************************************************************************)
(* The correlation detector in normalized mode.  The score at an offset is *)
(* dot / (|template| |window| + epsilon); a score is kept as its dot       *)
(* product and the two squared norms, so that |score| <= 1 for every       *)
(* epsilon >= 0 exactly when dot^2 <= |template|^2 |window|^2.             *)
(***************************************************************************)
\* the sample values
Amplitudes == {-2, -1, 0, 1, 2}

\* the non-empty sequences over S of length at most n
NonEmptySeqsUpTo(S, n) == SeqsUpTo(S, n) \ {<< >>}

\* the window one sample late
WindowOneLate(buffer, offset, length) ==
    [k \in 1..length |->
        IF offset + k + 1 <= Len(buffer) THEN buffer[offset + k + 1] ELSE 0]

\* the windowed sample segment at a 0-based offset
WindowAt(buffer, offset, length) == SubSeq(buffer, offset + 1, offset + length)

\* the dot product of two sequences of one length
Dot(a, b) == SumOf([k \in 1..Len(a) |-> a[k] * b[k]])

\* the score at an offset: the dot product with the window at the offset
\* and the squared L2 norms of the template and of the window whose norm
\* divides it
ScoreAt(tmpl, buffer, offset) ==
    [ dot |-> Dot(tmpl, SubSeq(buffer, offset + 1, offset + Len(tmpl))),
      template_sq |-> Dot(tmpl, tmpl),
      window_sq |-> Dot(WindowAt(buffer, offset, Len(tmpl)),
                        WindowAt(buffer, offset, Len(tmpl))) ]

\* one correlation pass over a sample buffer
InitCorr ==
    /\ CrcIdle
    /\ NccIdle
    /\ DiagIdle
    /\ GenIdle
    /\ LoopIdle
    /\ corr_pc = "scan"
    /\ template \in NonEmptySeqsUpTo(Amplitudes, MaxTemplate)
    /\ samples \in SeqsUpTo(Amplitudes, MaxSamples)
    /\ corr_offset = 0
    /\ corr_scores = << >>

\* the score of the next valid start offset
CorrStep ==
    /\ corr_pc = "scan"
    /\ corr_offset + Len(template) <= Len(samples)
    /\ corr_scores' = Append(corr_scores, ScoreAt(template, samples, corr_offset))
    /\ corr_offset' = corr_offset + 1
    /\ UNCHANGED << corr_pc, template, samples >>
    /\ UNCHANGED corrRest

\* no valid start offset is left
CorrEnd ==
    /\ corr_pc = "scan"
    /\ corr_offset + Len(template) > Len(samples)
    /\ corr_pc' = "done"
    /\ UNCHANGED << template, samples, corr_offset, corr_scores >>
    /\ UNCHANGED corrRest

NextCorr ==
    \/ CorrStep
    \/ CorrEnd

(***************************************************************************)
(* generate_bits (input_text_generator.py:8-43).  Strings are sequences of *)
(* the characters "0" and "1".  random.getrandbits(k) is any integer of k  *)
(* bits, held as its binary digits without leading zeros (no digit for 0); *)
(* the seed only selects which integers are drawn.                         *)
(***************************************************************************)
\* the modes main documents (line 57) and one it does not
GenModes == {"random", "alternating", "zero", "one", "continued", "bogus"}

\* the lengths tried: the short ones, and one full chunk with a remainder
GenLengths == (-1..MaxGenLength) \cup { Chunk + r : r \in 0..MaxGenRem }

RECURSIVE Repeat(_, _)
\* Python's s * k
Repeat(s, k) == IF k <= 0 THEN << >> ELSE s \o Repeat(s, k - 1)

RECURSIVE Join(_)
\* "".join(parts)
Join(parts) == IF parts = << >> THEN << >> ELSE Head(parts) \o Join(Tail(parts))

\* the binary digits of the integers below 2^k: all of them for a short
\* remainder, else 0, 1, 2^k - 1 and 1010...
GetRandBits(k) ==
    IF k <= MaxGenRem
    THEN { d \in SeqsUpTo(Symbols, k) : d = << >> \/ d[1] = "1" }
    ELSE { << >>, << "1" >>, Repeat(<< "1" >>, k),
           [i \in 1..(k - 1) |-> IF i % 2 = 1 THEN "1" ELSE "0"] }

\* lines 22, 25: f"{v:0{width}b}", the digits padded with zeros on the left
FormatBinary(digits, width) ==
    IF digits = << >> THEN Repeat(<< "0" >>, IF width > 1 THEN width ELSE 1)
    ELSE Repeat(<< "0" >>, width - Len(digits)) \o digits

\* line 29: ("01" * ((length + 1) // 2))[:length]
AlternatingBits(length) == Prefix(Repeat(<< "0", "1" >>, (length + 1) \div 2), length)

\* the pattern with the ones first
ContinuedPatternOnesFirst(n) == Repeat(<< "1" >>, n) \o Repeat(<< "0" >>, n)

\* line 40: pattern = "0" * n + "1" * n
ContinuedPattern(n) == Repeat(<< "0" >>, n) \o Repeat(<< "1" >>, n)

\* line 41: (pattern * ((length + len(pattern) - 1) // len(pattern)))[:length]
ContinuedBits(length, n) ==
    LET pattern == ContinuedPattern(n)
    IN  Prefix(Repeat(pattern, (length + Len(pattern) - 1) \div Len(pattern)), length)

InitGen ==
    /\ CrcIdle
    /\ NccIdle
    /\ DiagIdle
    /\ CorrIdle
    /\ LoopIdle
    /\ gen_pc = "call"
    /\ gen_length \in GenLengths
    /\ gen_mode \in GenModes
    /\ gen_n \in -1..MaxGenN
    /\ gen_chunks = << >>
    /\ gen_out = << >>

genArgs == << gen_length, gen_mode, gen_n >>

\* lines 9-10: raise ValueError("length must be positive")
GenRejectLength ==
    /\ gen_pc = "call"
    /\ gen_length <= 0
    /\ gen_pc' = "raised_length"
    /\ UNCHANGED << genArgs, gen_chunks, gen_out >>
    /\ UNCHANGED genRest

\* lines 20-22: one iteration of "for _ in range(full_chunks)"
GenRandomChunk ==
    /\ gen_pc = "call"
    /\ gen_length > 0
    /\ gen_mode = "random"
    /\ Len(gen_chunks) < gen_length \div Chunk
    /\ \E n64 \in GetRandBits(Chunk) :
          gen_chunks' = Append(gen_chunks, FormatBinary(n64, Chunk))
    /\ UNCHANGED << gen_pc, genArgs, gen_out >>
    /\ UNCHANGED genRest

\* lines 23-26: the remainder, then return "".join(bits)[:length]
GenRandomReturn ==
    /\ gen_pc = "call"
    /\ gen_length > 0
    /\ gen_mode = "random"
    /\ Len(gen_chunks) = gen_length \div Chunk
    /\ LET rem == gen_length % Chunk
       IN  IF rem # 0
           THEN \E nrem \in GetRandBits(rem) :
                   /\ gen_chunks' = Append(gen_chunks, FormatBinary(nrem, rem))
                   /\ gen_out' = Prefix(Join(gen_chunks'), gen_length)
           ELSE /\ gen_chunks' = gen_chunks
                /\ gen_out' = Prefix(Join(gen_chunks), gen_length)
    /\ gen_pc' = "returned"
    /\ UNCHANGED genArgs
    /\ UNCHANGED genRest

\* lines 28-29
GenAlternating ==
    /\ gen_pc = "call"
    /\ gen_length > 0
    /\ gen_mode = "alternating"
    /\ gen_out' = AlternatingBits(gen_length)
    /\ gen_pc' = "returned"
    /\ UNCHANGED << genArgs, gen_chunks >>
    /\ UNCHANGED genRest

\* lines 31-32: return "0" * length
GenZero ==
    /\ gen_pc = "call"
    /\ gen_length > 0
    /\ gen_mode = "zero"
    /\ gen_out' = Repeat(<< "0" >>, gen_length)
    /\ gen_pc' = "returned"
    /\ UNCHANGED << genArgs, gen_chunks >>
    /\ UNCHANGED genRest

\* lines 34-35: return "1" * length
GenOne ==
    /\ gen_pc = "call"
    /\ gen_length > 0
    /\ gen_mode = "one"
    /\ gen_out' = Repeat(<< "1" >>, gen_length)
    /\ gen_pc' = "returned"
    /\ UNCHANGED << genArgs, gen_chunks >>
    /\ UNCHANGED genRest

\* lines 37-39: raise ValueError("--n must be positive for continued mode")
GenRejectN ==
    /\ gen_pc = "call"
    /\ gen_length > 0
    /\ gen_mode = "continued"
    /\ gen_n <= 0
    /\ gen_pc' = "raised_n"
    /\ UNCHANGED << genArgs, gen_chunks, gen_out >>
    /\ UNCHANGED genRest

\* lines 37, 40-41
GenContinued ==
    /\ gen_pc = "call"
    /\ gen_length > 0
    /\ gen_mode = "continued"
    /\ gen_n > 0
    /\ gen_out' = ContinuedBits(gen_length, gen_n)
    /\ gen_pc' = "returned"
    /\ UNCHANGED << genArgs, gen_chunks >>
    /\ UNCHANGED genRest

\* line 43: raise ValueError(f"unknown mode: {mode}")
GenRejectMode ==
    /\ gen_pc = "call"
    /\ gen_length > 0
    /\ gen_mode \notin {"random", "alternating", "zero", "one", "continued"}
    /\ gen_pc' = "raised_mode"
    /\ UNCHANGED << genArgs, gen_chunks, gen_out >>
    /\ UNCHANGED genRest

NextGen ==
    \/ GenRejectLength
    \/ GenRandomChunk
    \/ GenRandomReturn
    \/ GenAlternating
    \/ GenZero
    \/ GenOne
    \/ GenRejectN
    \/ GenContinued
    \/ GenRejectMode

(***************************************************************************)
(* AudioLoopbackTester (debug_pic/audio_debug/record.py:103-150).  The     *)
(* recording buffer holds, per sample, the number of the callback that     *)
(* wrote it (0 after clear()).  The counters are ints; the tester lives    *)
(* for the few seconds main waits, far from the range of an int.           *)
(***************************************************************************)
\* line 120 testing the start of the block only
RecordFitsFromStart(recorded, numSamples, size) == recorded <= size

\* line 120: samplesRecorded + numSamples <= recordedAudio.getNumSamples()
RecordFits(recorded, numSamples, size) == recorded + numSamples <= size

\* line 121: copyFrom(0, start, source, numSamples) by callback number mark;
\* only the samples inside the buffer are kept here
CopyFrom(buffer, start, numSamples, mark) ==
    [i \in 1..Len(buffer) |->
        IF i - 1 >= start /\ i - 1 < start + numSamples THEN mark ELSE buffer[i]]

\* lines 105-109: the tester after construction on a source of any length
InitLoop ==
    /\ CrcIdle
    /\ NccIdle
    /\ DiagIdle
    /\ CorrIdle
    /\ GenIdle
    /\ loop_pc = "running"
    /\ capacity \in 0..MaxCapacity
    /\ recordedAudio = [i \in 1..capacity |-> 0]
    /\ samplesRecorded = 0
    /\ samplesPlayed = 0
    /\ callbacks = << >>
    /\ overrun = FALSE
    /\ dropped = FALSE
    /\ lastOutput = "none"

\* lines 114-141: audioDeviceIOCallbackWithContext on a block of numSamples
\* samples, with or without an input and an output channel
AudioCallback ==
    /\ loop_pc = "running"
    /\ Len(callbacks) < MaxCallbacks
    /\ \E numSamples \in 0..MaxBlock, hasInput \in BOOLEAN, hasOutput \in BOOLEAN :
          LET copied == hasInput /\ RecordFits(samplesRecorded, numSamples, capacity)
          IN  /\ recordedAudio' =
                    IF copied
                    THEN CopyFrom(recordedAudio, samplesRecorded, numSamples,
                                  Len(callbacks) + 1)
                    ELSE recordedAudio
              /\ overrun' = (overrun \/ (copied /\ samplesRecorded + numSamples > capacity))
              /\ dropped' = (dropped \/ (hasInput /\ ~copied))
              /\ callbacks' = Append(callbacks,
                                     [ numSamples |-> numSamples,
                                       start |-> samplesRecorded,
                                       input |-> hasInput,
                                       copied |-> copied ])
              /\ samplesRecorded' = samplesRecorded + numSamples
              /\ lastOutput' =
                    IF ~hasOutput THEN "untouched"
                    ELSE IF samplesPlayed + numSamples <= capacity THEN "source"
                    ELSE "cleared"
              /\ samplesPlayed' = samplesPlayed + numSamples
    /\ UNCHANGED << loop_pc, capacity >>
    /\ UNCHANGED loopRest

\* main, line 184: removeAudioCallback; no callback runs after it
StopCallbacks ==
    /\ loop_pc = "running"
    /\ loop_pc' = "stopped"
    /\ UNCHANGED << capacity, samplesRecorded, samplesPlayed, recordedAudio,
                    callbacks, overrun, dropped, lastOutput >>
    /\ UNCHANGED loopRest

NextLoop ==
    \/ AudioCallback
    \/ StopCallbacks

(***************************************************************************)
(* Specifications: one run of the CRC harness, one run of                  *)
(* analyze_ncc_file, one call of the diagnostics or of a file tool, one    *)
(* correlation pass, one call of generate_bits, one life of the loopback   *)
(* recorder, and any of them.                                              *)
(***************************************************************************)
SpecCrc == InitCrc /\ [][NextCrc]_vars

SpecNcc == InitNcc /\ [][NextNcc]_vars

SpecDiag == InitDiag /\ [][NextDiag]_vars

SpecCorr == InitCorr /\ [][NextCorr]_vars

SpecGen == InitGen /\ [][NextGen]_vars

SpecLoop == InitLoop /\ [][NextLoop]_vars

Init == InitCrc \/ InitNcc \/ InitDiag \/ InitCorr \/ InitGen \/ InitLoop

Next == NextCrc \/ NextNcc \/ NextDiag \/ NextCorr \/ NextGen \/ NextLoop

Spec == Init /\ [][Next]_vars

(***************************************************************************)
(* Reference definitions used by the claims about the codec.               *)
(***************************************************************************)
\* the list with the bit at position i (1-based) inverted
FlipBit(bits, i) == [k \in 1..Len(bits) |-> IF k = i THEN ~bits[k] ELSE bits[k]]

RECURSIVE StandardCrcLoop(_, _, _, _)
\* the textbook MSB-first bit-by-bit CRC-8: initial value 0, no reflection,
\* no final XOR, one shift per input bit
StandardCrcLoop(bits, poly, r, k) ==
    IF k > Len(bits) \/ r \notin Nat THEN r
    ELSE LET top == (TopBitSet(r) # bits[k])
             shifted == (r * 2) % ByteMod
         IN  StandardCrcLoop(bits, poly,
                             IF top THEN BitXor(shifted, poly) ELSE shifted,
                             k + 1)

StandardCrc8(bits, poly) == StandardCrcLoop(bits, poly, 0, 1)

\* every input bit followed by seven zero bits: the bit as the byte 0x80/0x00
ExpandBits(bits) ==
    [k \in 1..(ShiftRounds * Len(bits)) |->
        IF (k - 1) % ShiftRounds = 0 THEN bits[((k - 1) \div ShiftRounds) + 1]
        ELSE FALSE]

CrcReturned == crc_pc = "returned"

(***************************************************************************)
(* Claims about the CRC-8 codec, checked under SpecCrc.                    *)
(***************************************************************************)

\* C1: single-bit sensitivity.  For every input of length >= 1 and every
\* position i, the CRC (polynomial 0xD7) of the input with bit i flipped
\* differs from the CRC the call returned; the single-bit loop of
\* test_error_detection therefore counts every flip as detected.
C1_SingleBitSensitivity ==
    /\ (CrcReturned /\ polynomial = DefaultPolynomial) =>
          \A i \in 1..Len(data_bits) :
              calculate_crc8(ListArg(FlipBit(data_bits, i)), DefaultPolynomial) # crc
    /\ crc_pc \in {"err_loop", "err_done"} =>
          /\ errors_detected = err_i
          /\ (err_i > 0 => corrupted_crc # crc)

\* C1 witness: the single-bit loop has finished on an input of 8 bits or more
C1_Witness ==
    /\ crc_pc = "err_done"
    /\ Len(crc_arg.val) >= 8
    /\ errors_detected = Len(crc_arg.val)

\* C2 as stated: the value returned for polynomial 0xD7 equals the standard
\* MSB-first bit-by-bit CRC-8 of the input (one shift per input bit).
C2_EqualsStandardBitwiseCrc ==
    (CrcReturned /\ polynomial = DefaultPolynomial) =>
        crc = StandardCrc8(data_bits, DefaultPolynomial)

\* C2 amended: the value returned for polynomial 0xD7 equals the standard
\* MSB-first bit-by-bit CRC-8 (initial value 0, no reflection, no final XOR)
\* of the input in which every bit is followed by seven zero bits, that is
\* with eight shifts per input bit.
C2_EqualsStandardCrcOfExpandedBits ==
    (CrcReturned /\ polynomial = DefaultPolynomial) =>
        crc = StandardCrc8(ExpandBits(data_bits), DefaultPolynomial)

\* C2 witness: a call returned a value that is not the one-shift-per-bit CRC
C2_Witness ==
    /\ CrcReturned
    /\ polynomial = DefaultPolynomial
    /\ Len(data_bits) >= 2
    /\ crc # StandardCrc8(data_bits, DefaultPolynomial)

\* C3: append/verify round trip.  The frame is the payload followed by the 8
\* symbols of crc_to_bits(crc); splitting off the last 8 symbols and reading
\* them MSB-first gives a received CRC equal to the CRC recomputed over the
\* rest of the frame; crc_to_bits(c) has 8 symbols and int(crc_to_bits(c), 2)
\* is c for every byte c.
C3_AppendVerifyRoundTrip ==
    /\ crc_pc \in {"framed", "verified"} =>
          /\ Len(crc_bits) = CrcWidth
          /\ Len(full_frame) = Len(crc_arg.val) + CrcWidth
          /\ ParseBinary(crc_bits) = crc
    /\ crc_pc = "framed" =>
          \A c \in 0..(ByteMod - 1) :
              /\ Len(crc_to_bits(c)) = CrcWidth
              /\ \A i \in 1..CrcWidth : crc_to_bits(c)[i] \in Symbols
              /\ ParseBinary(crc_to_bits(c)) = c
    /\ crc_pc = "verified" =>
          /\ payload_received = crc_arg.val
          /\ crc_received = crc_calculated
          /\ crc_received = crc

\* C3 witness: a frame with a non-empty payload and a CRC whose bits are not
\* a palindrome has been verified
C3_Witness ==
    /\ crc_pc = "verified"
    /\ Len(payload_received) >= 1
    /\ crc_received = crc_calculated
    /\ crc_bits # crc_to_bitsLsbFirst(crc_received)

\* C4: the CRC of the empty sequence is 0 for every polynomial, and a call
\* on any sequence of '0'/'1' symbols or of booleans never stops before its
\* return: the argument converts to a list of booleans of the same length,
\* the register is a byte after every input bit, and in the loop either an
\* input bit is left to process or the call returns.
C4_EmptyIsZeroAndTotal ==
    /\ (CrcReturned /\ Len(crc_arg.val) = 0) => crc = 0
    /\ crc_pc \in {"loop", "returned"} =>
          /\ crc \in 0..(ByteMod - 1)
          /\ Len(data_bits) = Len(crc_arg.val)
          /\ \A k \in 1..Len(data_bits) : data_bits[k] \in BOOLEAN
          /\ bit_pos \in 0..Len(data_bits)
    /\ CrcReturned => bit_pos = Len(data_bits)

\* C4 witness: a call on the empty sequence with a polynomial other than the
\* default has returned
C4_Witness ==
    /\ CrcReturned
    /\ Len(crc_arg.val) = 0
    /\ polynomial = ByteMod - 1
    /\ crc = 0

Merging == ncc_pc = "merge"
Merged == ncc_pc \in {"report", "offset", "done"}

\* the peaks emitted so far, the open cluster's representative included
Emitted == IF Merging THEN Append(filtered_peaks, current_peak) ELSE peaks

\* the earliest candidate of the highest score in a non-empty list
RepOf(ms) ==
    ms[CHOOSE j \in 1..Len(ms) :
          /\ \A k \in 1..Len(ms) : ms[j].ncc >= ms[k].ncc
          /\ \A k \in 1..(j - 1) : ms[k].ncc < ms[j].ncc]

\* the 0-based index i of the trace is among the candidates
IsCandidate(i) ==
    \E k \in 1..Len(peaks) :
        peaks[k] = [sample |-> sample_indices[i + 1], ncc |-> ncc_values[i + 1]]

\* no score of the trace exceeds the threshold
AllBelowThreshold == \A k \in 1..Len(ncc_values) : ncc_values[k] <= Threshold

(***************************************************************************)
(* Claims about the peak selector and the frame aligner, checked under     *)
(* SpecNcc.                                                                *)
(***************************************************************************)

\* C5: peak merge invariant.  After the 0.1 s merge pass (and at every step
\* of it, for the peaks emitted so far) the peak list is ordered by time and
\* any two consecutive peaks are at least 0.1 s apart: their samples differ
\* by at least SampleRate / 10.
C5_PeakMergeInvariant ==
    (Merging \/ Merged) =>
        \A k \in 1..(Len(Emitted) - 1) :
            /\ Emitted[k].sample < Emitted[k + 1].sample
            /\ (Emitted[k + 1].sample - Emitted[k].sample) * WindowPerSecond >= SampleRate

\* C5 witness: the pass is over, it merged candidates into the first cluster
\* and it left at least two peaks
C5_Witness ==
    /\ Merged
    /\ Len(peaks) >= 2
    /\ Len(clusters[1]) >= 2
    /\ peaks[1] # clusters[1][1]

\* C6: peak qualification.  When the detection loop is over, index i of the
\* trace is a candidate if and only if 1 <= i <= n-2, score[i] > threshold,
\* score[i] > score[i-1] and score[i] > score[i+1]; so indices 0 and n-1 and
\* the indices of a plateau never are; the candidates are in index order.
C6_PeakQualification ==
    ncc_pc = "filter" =>
        /\ \A i \in 0..(Len(ncc_values) - 1) :
              IsCandidate(i) <=>
                  /\ 1 <= i
                  /\ i <= Len(ncc_values) - 2
                  /\ ncc_values[i + 1] > Threshold
                  /\ ncc_values[i + 1] > ncc_values[i]
                  /\ ncc_values[i + 1] > ncc_values[i + 2]
        /\ \A k \in 1..(Len(peaks) - 1) : peaks[k].sample < peaks[k + 1].sample

\* C6 witness: a trace with a candidate, a first score above the threshold
\* and a plateau above the threshold has been scanned
C6_Witness ==
    /\ ncc_pc = "filter"
    /\ Len(peaks) >= 1
    /\ ncc_values[1] > Threshold
    /\ \E i \in 1..(Len(ncc_values) - 1) :
          ncc_values[i] = ncc_values[i + 1] /\ ncc_values[i] > Threshold

\* C7: cluster representative.  In the merge pass a candidate joins the open
\* cluster exactly when its time minus the time of the cluster's current
\* representative is below the merge window (at exactly 0.1 s the rounded
\* difference of the two doubles decides); the peak emitted for a cluster is
\* the earliest candidate of the highest score absorbed into it, so its score
\* is >= the score of every absorbed candidate.
C7_ClusterRepresentative ==
    (Merging \/ Merged) =>
        /\ Len(clusters) = Len(Emitted)
        /\ \A c \in 1..Len(clusters) :
              /\ Emitted[c] = RepOf(clusters[c])
              /\ \A j \in 1..Len(clusters[c]) : Emitted[c].ncc >= clusters[c][j].ncc
              /\ \A j \in 2..Len(clusters[c]) :
                    (clusters[c][j].sample
                       - RepOf(SubSeq(clusters[c], 1, j - 1)).sample) * WindowPerSecond
                    <= SampleRate
              /\ c > 1 =>
                    (clusters[c][1].sample
                       - RepOf(clusters[c - 1]).sample) * WindowPerSecond
                    >= SampleRate

\* C7 witness: a cluster absorbed three candidates, two of them share the
\* highest score and the emitted one is the earlier of these, not the first
C7_Witness ==
    /\ Merged
    /\ \E c \in 1..Len(clusters) :
          /\ Len(clusters[c]) >= 3
          /\ clusters[c][1].ncc < clusters[c][2].ncc
          /\ clusters[c][2].ncc = clusters[c][3].ncc
          /\ peaks[c] = clusters[c][2]

\* the empty-peak scenario on the traces of at least n scores: the run does
\* not raise, the peak list is empty, the no-peaks branch of the report is
\* taken and the recommended threshold is 0.7 times the maximum score
\* (RelaxTenths tenths of it, kept in thousandths)
EmptyPeakScenarioFrom(n) ==
    (Len(ncc_values) >= n /\ AllBelowThreshold) =>
        /\ ncc_pc # "crashed"
        /\ Len(peaks) = 0
        /\ ncc_pc \in {"offset", "done"} =>
              /\ quality = "no_peaks"
              /\ \E k \in 1..Len(ncc_values) :
                    /\ \A j \in 1..Len(ncc_values) : ncc_values[j] <= ncc_values[k]
                    /\ max_ncc = ncc_values[k]
                    /\ recommended = RelaxTenths * ncc_values[k]
              /\ Len(alignments) = 0
        /\ ncc_pc = "done" => recommendation = "lower_threshold"

\* C8 as stated: empty-peak scenario.  When no score of a non-empty trace
\* exceeds the threshold the run does not raise, the peak list is empty and
\* the recommended threshold is 0.7 times the maximum score.  A trace of a
\* single score raises while it is loaded.
C8_EmptyPeakScenario == EmptyPeakScenarioFrom(1)

\* C8 on the traces of at least two scores, where the scenario is as stated
C8_EmptyPeakScenarioFromTwoScores == EmptyPeakScenarioFrom(2)

\* C8 witness: the run is over on a trace of scores 0.20 and 0.35 only, and
\* 0.245 was recommended
C8_Witness ==
    /\ ncc_pc = "done"
    /\ Len(ncc_values) >= 3
    /\ AllBelowThreshold
    /\ \E k \in 1..Len(ncc_values) : ncc_values[k] < Threshold
    /\ recommended = RelaxTenths * Threshold

\* C9 as stated: for every analysed peak the data start sample is the
\* peak's sample plus the preamble length (440) plus 1.
C9_DataStartAfterPreamble ==
    \A k \in 1..Len(alignments) :
        alignments[k].data_start_sample = peaks[k].sample + PreambleSamples + 1

C11_AlignedAtBitBoundary ==
    \A k \in 1..Len(alignments) :
        LET a == alignments[k]
        IN  (\/ a.data_start_sample % samples_per_bit = 0
             \/ (a.sample + PreambleSamples + 1) % samples_per_bit = 0) =>
                /\ a.offset_within_bit = 0
                /\ a.alignment_error = 0
                /\ ~a.warning

\* C11 witness: the run is over and one of the analysed peaks has its data
\* start on a bit boundary
C11_Witness ==
    /\ ncc_pc = "done"
    /\ \E k \in 1..Len(alignments) :
          /\ alignments[k].data_start_sample > 0
          /\ alignments[k].data_start_sample % samples_per_bit = 0
          /\ alignments[k].alignment_error = 0

(***************************************************************************)
(* Reference definitions used by the claims about the diagnostics: what    *)
(* the arguments of the call determine.                                    *)
(***************************************************************************)
\* m = min(len(expected), len(actual))
CommonLen == MinLen(arg_input, arg_output)

\* the positions below m where the two arguments differ
DiffPositions == { i \in 0..(CommonLen - 1) : arg_input[i + 1] # arg_output[i + 1] }

\* analyze_bit_errors was called (directly or from main) ...
Analysed == entry \in {"analyze_bit_errors", "main"} /\ format_error = "none"
\* ... and has computed its statistics
AbeCounted ==
    /\ Analysed
    /\ diag_pc \in {"abe_stats", "abe_pattern", "abe_gaps", "abe_burst",
                    "abe_context", "done", "crashed"}
\* ... and is over, by returning or by raising
AbeOver == Analysed /\ diag_pc \in {"done", "crashed"}
\* ... and has returned
AbeReturned == Analysed /\ diag_pc = "done"

\* the errors of the early and of the late fifth
EarlyDiffs == { p \in DiffPositions : p < CommonLen \div 5 }
LateDiffs == { p \in DiffPositions : p >= (4 * CommonLen) \div 5 }
MiddleDiffs == DiffPositions \ (EarlyDiffs \cup LateDiffs)

\* the elements of a list of positions
Elements(q) == { q[k] : k \in 1..Len(q) }

\* the concentration findings and all the pattern findings
Concentrations == {"early", "late", "distributed"}
Patterns == Concentrations \cup {"periodic", "burst"}

\* some MinBurst successive errors are each within BurstThreshold of the next
HasBurstRun ==
    \E k \in 1..(Len(errors) - MinBurst + 1) :
        \A j \in k..(k + MinBurst - 2) : errors[j + 1] - errors[j] <= BurstThreshold

\* a text holds a character outside {0, 1}
HasOtherChar(text) == \E k \in 1..Len(text) : text[k] \notin Symbols

\* the end-to-end scenario: '01' 50 times against the copy with bit 3 flipped
Scenario ==
    /\ entry = "analyze_bit_errors"
    /\ arg_input = Alternating(ScenarioBits)
    /\ arg_output = FlipAll(Alternating(ScenarioBits), {3})

(***************************************************************************)
(* Claims about the diagnostics and the file tools, checked under          *)
(* SpecDiag.                                                               *)
(***************************************************************************)
\* C12: analyze_bit_errors compares only the first m = min(len(expected),
\* len(actual)) positions: total_bits is m, the error list is the strictly
\* increasing list of all positions below m where the two differ, and the
\* bit error rate is error_count / m, 0 when m = 0.
C12_ComparesCommonPrefix ==
    /\ (Analysed /\ diag_pc = "abe_compare") =>
          Elements(errors) = { p \in DiffPositions : p < cmp_i }
    /\ AbeCounted =>
          /\ total_bits = CommonLen
          /\ Len(input_bits) = CommonLen /\ Len(output_bits) = CommonLen
          /\ Elements(errors) = DiffPositions
          /\ \A k \in 1..(Len(errors) - 1) : errors[k] < errors[k + 1]
          /\ error_count = Len(errors)
          /\ error_count = Cardinality(DiffPositions)
          /\ ber.den > 0
          /\ IF CommonLen = 0 THEN ber.num = 0
             ELSE ber.num * CommonLen = error_count * ber.den

\* C12 witness: a call on strings of different lengths has returned with
\* several errors in the common prefix, the last position not among them
C12_Witness ==
    /\ AbeReturned
    /\ Len(arg_input) # Len(arg_output)
    /\ CommonLen >= 5
    /\ error_count >= 2
    /\ errors[1] > 0
    /\ ber.num * CommonLen = error_count * ber.den

\* C13 as stated: the diagnostics is total.  For every two strings of bits
\* analyze_bit_errors returns without raising, and with zero errors it
\* reports a perfect match.
C13_DiagnosticsTotal ==
    (entry = "analyze_bit_errors") =>
        /\ diag_pc # "crashed"
        /\ (diag_pc = "done" /\ error_count = 0) => "perfect" \in findings

\* C13 witness: a call with an error in fewer than five compared bits is over
C13_Witness ==
    /\ entry = "analyze_bit_errors"
    /\ AbeOver
    /\ CommonLen < 5
    /\ error_count > 0

\* C14 as stated: in the end-to-end scenario one error is counted, the bit
\* error rate is 0.01 and the pattern is Distributed alone.
C14_ScenarioDistributed ==
    (Scenario /\ AbeOver) =>
        /\ diag_pc = "done"
        /\ error_count = 1
        /\ ber.num * 100 = ber.den
        /\ findings \cap Patterns = {"distributed"}

\* C14 amended: in the end-to-end scenario one error is counted, the bit
\* error rate is 0.01 and the pattern is early concentration alone: the only
\* error, bit 3, lies in the first 20 bits.
C14_ScenarioEarly ==
    /\ Scenario => diag_pc # "crashed"
    /\ (Scenario /\ AbeOver) =>
          /\ errors = << 3 >>
          /\ error_count = 1
          /\ ber.num * 100 = ber.den
          /\ findings \cap Patterns = {"early"}

\* C14 witness: the scenario has run to its end
C14_Witness == Scenario /\ AbeReturned /\ error_count = 1 /\ rating # "none"

C16_LengthMismatchNotFatal ==
    (/\ entry \in {"analyze_bit_errors", "test_receiver_output"}
     /\ Len(arg_input) # Len(arg_output)) =>
        /\ diag_pc # "crashed"
        /\ diag_pc \notin {"call", "abe_call"} => length_flagged
        /\ cmp_i <= CommonLen
        /\ diag_pc = "done" => cmp_i = CommonLen

\* C16 witness: test_receiver_output is over on a pair of which one is empty
C16_Witness ==
    /\ entry = "test_receiver_output"
    /\ diag_pc \in {"done", "crashed"}
    /\ length_flagged
    /\ CommonLen = 0

\* C17 as stated: input format errors stop processing.  When a bit file a
\* tool reads holds a character outside {0, 1}, the tool reports the error,
\* computes no CRC and compares no bit.
C17_FormatErrorStops ==
    (/\ entry \in {"main", "test_file_crc", "test_receiver_output"}
     /\ HasOtherChar(arg_input) \/ HasOtherChar(arg_output)) =>
        /\ cmp_i = 0
        /\ errors = << >>
        /\ file_crc = -1
        /\ diag_pc \in {"done", "crashed"} => format_error # "none"

\* C17 witness: test_receiver_output is over on a file with another
\* character, after comparing
C17_Witness ==
    /\ entry = "test_receiver_output"
    /\ HasOtherChar(arg_input)
    /\ diag_pc = "done"
    /\ cmp_i > 0

\* the concentration rule on the compared bits of a call that is over
ConcentrationRule ==
    LET e == Cardinality(DiffPositions)
        early == 2 * Cardinality(EarlyDiffs) > e
        late == 2 * Cardinality(LateDiffs) > e
    IN  /\ "early" \in findings <=> early
        /\ "late" \in findings <=> (~early /\ late)
        /\ ~({"early", "late"} \subseteq findings)
        /\ Elements(early_errors) = EarlyDiffs
        /\ Elements(middle_errors) = MiddleDiffs
        /\ Elements(late_errors) = LateDiffs
        /\ EarlyDiffs \cap LateDiffs = {}
        /\ EarlyDiffs \cup MiddleDiffs \cup LateDiffs = DiffPositions
        /\ Len(early_errors) + Len(middle_errors) + Len(late_errors) = e

\* C20 as stated: the concentration rule.  With N compared bits, e errors,
\* E the errors below floor(0.2 N) and L the errors from floor(0.8 N) on,
\* early concentration is reported iff 2|E| > e, late concentration iff
\* early is not and 2|L| > e, never both, and the early, middle and late
\* groups are disjoint and together hold every error.
C20_ConcentrationRule ==
    (AbeOver /\ Cardinality(DiffPositions) > 0) => ConcentrationRule

\* the concentration rule on the calls that compare five bits or more
ConcentrationRuleFromFiveBits ==
    (AbeOver /\ Cardinality(DiffPositions) > 0 /\ CommonLen >= 5) =>
        diag_pc = "done" /\ ConcentrationRule

\* C20 witness: a call that compares a single differing bit is over; the
\* error is in the late group and no concentration was reported
C20_Witness ==
    /\ AbeOver
    /\ CommonLen = 1
    /\ LateDiffs = {0}
    /\ findings = {}

(***************************************************************************)
(* The claim about the correlation detector, checked under SpecCorr.       *)
(***************************************************************************)
\* C19: correlation boundedness.  For every sample buffer and template every
\* normalized score dot / (|template| |window| + epsilon) lies in [-1, 1],
\* hence in [-1 - eps, 1 + eps]: dot^2 <= |template|^2 |window|^2, and a
\* silent window scores 0.  There is one score per valid start offset.
C19_ScoresBounded ==
    /\ \A k \in 1..Len(corr_scores) :
          LET sc == corr_scores[k]
          IN  /\ sc.dot * sc.dot <= sc.template_sq * sc.window_sq
              /\ sc.window_sq = 0 => sc.dot = 0
    /\ corr_pc = "done" =>
          Len(corr_scores) = IF Len(samples) >= Len(template)
                             THEN Len(samples) - Len(template) + 1 ELSE 0

\* C19 witness: a pass is over in which one window matched the template up
\* to gain (the score is 1 or -1), one did not and one was silent
C19_Witness ==
    /\ corr_pc = "done"
    /\ Len(template) >= 2
    /\ \E k \in 1..Len(corr_scores) :
          /\ corr_scores[k].dot # 0
          /\ corr_scores[k].dot * corr_scores[k].dot
                = corr_scores[k].template_sq * corr_scores[k].window_sq
    /\ \E k \in 1..Len(corr_scores) :
          /\ corr_scores[k].dot < 0
          /\ corr_scores[k].dot * corr_scores[k].dot
                < corr_scores[k].template_sq * corr_scores[k].window_sq

(***************************************************************************)
(* Claims about the gap analysis of analyze_bit_errors, checked under      *)
(* SpecDiag.                                                               *)
(***************************************************************************)
\* some MinBurst errors lie within one window of BurstThreshold bits: the
\* last of them is less than BurstThreshold after the first
HasWindowGroup ==
    \E p \in DiffPositions :
        Cardinality({ q \in DiffPositions : q >= p /\ q - p < BurstThreshold })
            >= MinBurst

\* C21 as stated: burst window.  A burst is reported only for a group of at
\* least 3 errors that all lie within one 10-bit window (last position
\* minus first position < 10), and every such group in the error list
\* causes a burst to be reported.
C21_BurstWindow ==
    AbeOver => ("burst" \in findings <=> HasWindowGroup)

\* the burst rule of the scan on the calls that return: a burst is reported
\* iff some 3 successive errors are each at most 10 bits after the previous
BurstIffChainedRun ==
    AbeReturned => ("burst" \in findings <=> HasBurstRun)

\* C21 witness: the call with errors at bits 0, 10 and 20 has returned and
\* reported one burst from bit 0 to bit 20
C21_Witness ==
    /\ AbeReturned
    /\ DiffPositions = {0, 10, 20}
    /\ bursts = << << 0, 10, 20 >> >>
    /\ "burst" \in findings
    /\ ~HasWindowGroup

(***************************************************************************)
(* Further claims about the CRC-8 codec, checked under SpecCrc.            *)
(***************************************************************************)
\* test_crc.py:99-101: the bits s..s+k-1 (1-based) inverted
FlipRun(bits, s, k) ==
    [j \in 1..Len(bits) |-> IF j >= s /\ j < s + k THEN ~bits[j] ELSE bits[j]]

\* the burst lengths of the claim: 2 to 8 bits
BurstSizes == 2..CrcWidth

\* C22: CRC burst detection.  For every bit sequence b, every k with
\* 2 <= k <= 8 and every start position s with s + k <= len(b), flipping
\* the k consecutive bits s..s+k-1 changes calculate_crc8(b, 0xD7).
C22_BurstDetected ==
    (CrcReturned /\ polynomial = DefaultPolynomial) =>
        \A k \in BurstSizes : \A s \in 1..(Len(data_bits) - k + 1) :
            calculate_crc8(ListArg(FlipRun(data_bits, s, k)), DefaultPolynomial)
                # crc

\* C22 witness: the call has returned on an input of 8 bits or more, where
\* a burst of 8 bits fits, and the CRC of the input with its first 8 bits
\* flipped is another value
C22_Witness ==
    /\ CrcReturned
    /\ polynomial = DefaultPolynomial
    /\ Len(data_bits) >= CrcWidth
    /\ calculate_crc8(ListArg(FlipRun(data_bits, 1, CrcWidth)), DefaultPolynomial)
          # crc

(***************************************************************************)
(* The claim about generate_bits, checked under SpecGen.                   *)
(***************************************************************************)
GenValidModes == {"random", "alternating", "zero", "one", "continued"}

\* the arguments for which generate_bits raises ValueError
GenInvalidCall ==
    \/ gen_length <= 0
    \/ gen_mode \notin GenValidModes
    \/ gen_mode = "continued" /\ gen_n <= 0

GenRaised == gen_pc \in {"raised_length", "raised_n", "raised_mode"}

\* C23: generate_bits returns a string of exactly length symbols over {0,1}
\* for every length >= 1 and every valid mode; in continued mode with block
\* size n >= 1 symbol i is '1' iff (i div n) is odd, in alternating mode
\* symbol i is '1' iff i is odd; length <= 0, an unknown mode, or n <= 0 in
\* continued mode raise ValueError and return nothing.
C23_GeneratedBits ==
    /\ gen_pc = "returned" =>
          /\ ~GenInvalidCall
          /\ Len(gen_out) = gen_length
          /\ \A i \in 1..Len(gen_out) : gen_out[i] \in Symbols
          /\ gen_mode = "continued" =>
                \A i \in 0..(gen_length - 1) :
                    (gen_out[i + 1] = "1") <=> ((i \div gen_n) % 2 = 1)
          /\ gen_mode = "alternating" =>
                \A i \in 0..(gen_length - 1) : (gen_out[i + 1] = "1") <=> (i % 2 = 1)
    /\ GenRaised => GenInvalidCall /\ gen_out = << >>
    /\ (gen_pc = "call" /\ GenInvalidCall) => gen_chunks = << >>

\* C23 witness: continued mode with n = 3 has returned 0001110 for length 7
C23_Witness ==
    /\ gen_pc = "returned"
    /\ gen_mode = "continued"
    /\ gen_n = 3
    /\ gen_out = << "0", "0", "0", "1", "1", "1", "0" >>

RECURSIVE MaskedShiftLoop(_, _, _)
\* n shift rounds on a register that is cut to 8 bits after every round
MaskedShiftLoop(c, poly, n) ==
    IF n = 0 \/ c \notin Nat THEN c
    ELSE MaskedShiftLoop(CrcShiftRound(c, poly) % ByteMod, poly, n - 1)

RECURSIVE MaskedCrcLoop(_, _, _, _)
\* the CRC of the first n bits with the register cut after every round
MaskedCrcLoop(bits, poly, c, k) ==
    IF k > Len(bits) \/ c \notin Nat THEN c
    ELSE MaskedCrcLoop(bits, poly,
                       MaskedShiftLoop(BitXor(c, IF bits[k] THEN TopBit ELSE 0),
                                       poly, ShiftRounds),
                       k + 1)

\* C24: 8-bit register.  For every polynomial in 0..255 and every input,
\* calculate_crc8 returns a value in 0..255, and masking the register to 8
\* bits once per input bit (letting it grow during the 8 shift rounds) gives
\* the same result as masking it to 8 bits after every single shift round.
C24_EightBitRegister ==
    crc_pc \in {"loop", "returned"} =>
        /\ crc \in 0..(ByteMod - 1)
        /\ crc = MaskedCrcLoop(SubSeq(data_bits, 1, bit_pos), polynomial, 0, 1)

\* C24 witness: a call with another polynomial has returned, and the
\* register grew past 8 bits during the shift rounds of its first bit
C24_Witness ==
    /\ CrcReturned
    /\ polynomial # DefaultPolynomial
    /\ Len(data_bits) >= 2
    /\ data_bits[1]
    /\ CrcShiftLoop(TopBit, polynomial, ShiftRounds) >= ByteMod
    /\ crc # 0

\* the bitwise XOR of two bit lists of one length
XorBits(a, b) == [k \in 1..Len(a) |-> a[k] # b[k]]

\* the list of n bits with a single one at position i
UnitBits(n, i) == [k \in 1..n |-> k = i]

\* the second operands tried against an input of n bits: every list of n
\* bits for a short input, else the single-bit patterns and the all-ones one
XorOperands(n) ==
    IF n <= MaxXorBits
    THEN { b \in SeqsUpTo(BOOLEAN, n) : Len(b) = n }
    ELSE { UnitBits(n, i) : i \in 1..n } \cup { [k \in 1..n |-> TRUE] }

\* C25: CRC linearity.  For every two bit sequences a and b of equal length
\* and every polynomial, calculate_crc8(a XOR b) = calculate_crc8(a) XOR
\* calculate_crc8(b), so whether an error pattern goes undetected depends
\* only on the pattern and its position, not on the payload.
C25_Linear ==
    CrcReturned =>
        \A b \in XorOperands(Len(data_bits)) :
            calculate_crc8(ListArg(XorBits(data_bits, b)), polynomial)
                = BitXor(crc, calculate_crc8(ListArg(b), polynomial))

\* C25 witness: a call on a non-zero input of 2 bits or more has returned a
\* non-zero CRC, and the XOR with another non-zero operand has another CRC
C25_Witness ==
    /\ CrcReturned
    /\ Len(data_bits) >= 2
    /\ crc # 0
    /\ \E b \in XorOperands(Len(data_bits)) :
          /\ b # data_bits
          /\ calculate_crc8(ListArg(b), polynomial) # 0
          /\ calculate_crc8(ListArg(XorBits(data_bits, b)), polynomial) # crc

(***************************************************************************)
(* Further claims about analyze_ncc_file, checked under SpecNcc.           *)
(***************************************************************************)
\* C26: alignment consistency.  For every peak sample offset, the reported
\* offset within the bit period lies in 0..43, the reported alignment error
\* min(o, 44 - o) lies in 0..22, and the significant-offset warning is
\* raised if and only if the alignment error is greater than a quarter of
\* the bit period (> 11 samples).
C26_AlignmentConsistent ==
    \A k \in 1..Len(alignments) :
        LET a == alignments[k]
            o == a.offset_within_bit
        IN  /\ o \in 0..43
            /\ a.alignment_error \in 0..22
            /\ a.alignment_error <= o /\ a.alignment_error <= 44 - o
            /\ a.alignment_error \in {o, 44 - o}
            /\ a.warning <=> a.alignment_error > 11

\* C26 witness: the run is over; one analysed peak is 11 samples off the
\* bit boundary (at offset 33) and has no warning, another is further off
\* and has it
C26_Witness ==
    /\ ncc_pc = "done"
    /\ \E k \in 1..Len(alignments) :
          /\ alignments[k].offset_within_bit = 33
          /\ alignments[k].alignment_error = 11
          /\ ~alignments[k].warning
    /\ \E k \in 1..Len(alignments) :
          alignments[k].alignment_error > 11 /\ alignments[k].warning

\* the 0-based index i of the trace qualifies: an inner index whose score
\* is above the threshold and above both neighbours
Qualifies(i) ==
    /\ 1 <= i
    /\ i <= Len(ncc_values) - 2
    /\ ncc_values[i + 1] > Threshold
    /\ ncc_values[i + 1] > ncc_values[i]
    /\ ncc_values[i + 1] > ncc_values[i + 2]

\* the indices of the trace that qualify
QualifyingIndices == { i \in 0..(Len(ncc_values) - 1) : Qualifies(i) }

\* C27: peak list soundness.  Every peak left after the merge pass is one of
\* the qualifying candidates (same sample index and score, unchanged), the
\* list is non-empty if and only if at least one candidate qualified, and
\* the number of peaks never exceeds the number of candidates.
C27_PeakListSound ==
    (Merging \/ Merged) =>
        /\ \A k \in 1..Len(Emitted) :
              \E i \in QualifyingIndices :
                  /\ Emitted[k].sample = sample_indices[i + 1]
                  /\ Emitted[k].ncc = ncc_values[i + 1]
        /\ Len(Emitted) <= Cardinality(QualifyingIndices)
        /\ Merged => (Len(peaks) > 0 <=> QualifyingIndices # {})

\* C27 witness: the merge pass is over on a trace with three qualifying
\* candidates or more and left fewer peaks than candidates, but not one only
C27_Witness ==
    /\ Merged
    /\ Cardinality(QualifyingIndices) >= 3
    /\ Len(peaks) >= 2
    /\ Len(peaks) < Cardinality(QualifyingIndices)

(***************************************************************************)
(* Claims that compare the two output validators and that concern the      *)
(* periodic test, checked under SpecDiag.                                  *)
(***************************************************************************)
\* one of the two validators has run to its end on the pair of arguments
ValidatorOver ==
    /\ entry \in {"analyze_bit_errors", "test_receiver_output"}
    /\ diag_pc \in {"done", "crashed"}

\* two bit error rates, kept as fractions, are the same number
SameRate(a, b) == a.num * b.den = b.num * a.den

\* C28 as stated: the two output validators agree.  For every
\* expected/actual pair, test_receiver_output and analyze_bit_errors compute
\* the same error positions and the same bit error rate, and one declares a
\* perfect match exactly when the other does: whichever of the two ran, its
\* results are what the pair alone determines.
C28_ValidatorsAgree ==
    ValidatorOver =>
        /\ Elements(errors) = DiffPositions
        /\ SameRate(ber, BerOf(Cardinality(DiffPositions), CommonLen))
        /\ "perfect" \in findings <=> DiffPositions = {}

\* the part on which the validators do agree: the error positions, and the
\* bit error rate of every call that returns
ValidatorsAgreeOnErrors ==
    ValidatorOver =>
        /\ Elements(errors) = DiffPositions
        /\ diag_pc = "done" =>
              SameRate(ber, BerOf(Cardinality(DiffPositions), CommonLen))

\* C28 witness: test_receiver_output has returned on a pair of different
\* lengths whose common prefix has no error, and reported errors
C28_Witness ==
    /\ entry = "test_receiver_output"
    /\ diag_pc = "done"
    /\ Len(arg_input) # Len(arg_output)
    /\ CommonLen > 0
    /\ DiffPositions = {}
    /\ "errors_detected" \in findings
    /\ "perfect" \notin findings

\* the gaps between successive error positions: their number, their sum and
\* the sum of their squares
GapCount == Cardinality(DiffPositions) - 1
GapSum ==
    (CHOOSE p \in DiffPositions : \A q \in DiffPositions : q <= p)
      - (CHOOSE p \in DiffPositions : \A q \in DiffPositions : p <= q)
GapSquares ==
    LET next(p) == CHOOSE q \in DiffPositions :
                      /\ q > p
                      /\ \A r \in DiffPositions : r > p => q <= r
        inner == { p \in DiffPositions : \E q \in DiffPositions : q > p }
        sq[ps \in SUBSET inner] ==
            IF ps = {} THEN 0
            ELSE LET p == CHOOSE x \in ps : TRUE
                 IN  (next(p) - p) * (next(p) - p) + sq[ps \ {p}]
    IN  sq[inner]

\* the population standard deviation of the gaps is below (above) 0.3 times
\* their mean: std^2 = Q/n - (S/n)^2 against 0.09 (S/n)^2
GapsStdBelow == 100 * (GapCount * GapSquares - GapSum * GapSum) < 9 * GapSum * GapSum
GapsStdAbove == 100 * (GapCount * GapSquares - GapSum * GapSum) > 9 * GapSum * GapSum

\* the rule of the periodic finding
PeriodicRule ==
    /\ "periodic" \in findings =>
          Cardinality(DiffPositions) >= 2 /\ ~GapsStdAbove
    /\ (Cardinality(DiffPositions) >= 2 /\ GapsStdBelow) => "periodic" \in findings
    /\ Cardinality(DiffPositions) = 2 => "periodic" \in findings

\* C29 as stated: periodic test on gaps.  Periodic errors are reported if
\* and only if there are at least 2 errors and the population standard
\* deviation of the gaps between consecutive error positions is below 0.3
\* times their mean; consequently every comparison with exactly 2 errors (a
\* single gap) is reported as periodic.
C29_PeriodicOnGaps == AbeOver => PeriodicRule

\* the periodic rule on the calls that return
PeriodicRuleOnReturn == AbeReturned => PeriodicRule

\* C29 witness: a call with exactly two errors is over, has compared fewer
\* than 5 bits and has reported no periodic errors
C29_Witness ==
    /\ AbeOver
    /\ Cardinality(DiffPositions) = 2
    /\ CommonLen < 5
    /\ "periodic" \notin findings

(***************************************************************************)
(* The claim about the loopback recorder, checked under SpecLoop.          *)
(***************************************************************************)
RECURSIVE BlockSum(_)
\* the samples of all the blocks of a list of callbacks
BlockSum(cs) ==
    IF cs = << >> THEN 0 ELSE Head(cs).numSamples + BlockSum(Tail(cs))

\* C30: loopback recorder bounds.  Over any sequence of audio callbacks with
\* arbitrary block sizes, AudioLoopbackTester never writes at or beyond the
\* end of the recording buffer (a block is copied only when samplesRecorded
\* + numSamples <= capacity, otherwise it is dropped whole), samplesRecorded
\* and samplesPlayed advance by numSamples on every callback and stay
\* equal, and once a block has been dropped no later block is recorded.
C30_RecorderBounds ==
    /\ ~overrun
    /\ Len(recordedAudio) = capacity
    /\ \A k \in 1..Len(callbacks) :
          LET c == callbacks[k]
              written == { i \in 0..(capacity - 1) : recordedAudio[i + 1] = k }
          IN  /\ c.copied => c.start + c.numSamples <= capacity
              /\ written = IF c.copied THEN c.start..(c.start + c.numSamples - 1)
                           ELSE {}
              /\ c.start = BlockSum(SubSeq(callbacks, 1, k - 1))
              /\ \A j \in 1..(k - 1) :
                    (callbacks[j].input /\ ~callbacks[j].copied) => ~c.copied
    /\ samplesRecorded = BlockSum(callbacks)
    /\ samplesPlayed = samplesRecorded

\* C30 witness: a block was recorded, the next one was dropped, and a later
\* block that is no longer than the room left behind the recorded one was
\* not recorded either
C30_Witness ==
    /\ Len(callbacks) = 3
    /\ callbacks[1].copied /\ callbacks[1].numSamples > 0
    /\ callbacks[2].input /\ ~callbacks[2].copied
    /\ callbacks[3].input /\ ~callbacks[3].copied
    /\ callbacks[3].numSamples > 0
    /\ callbacks[1].numSamples + callbacks[3].numSamples <= capacity
    /\ dropped

=============================================================================
